---- MODULE Spec2Model ----
(***************************************************************************)
(* Cricbuzz LiveStats: the match feed normalizer (utils/api_client.py) and *)
(* the match store upserter (utils/db_connection.py).                      *)
(*                                                                         *)
(* Python / SQL values are tagged records [t, v], so that None, integers,  *)
(* strings, dicts and lists stay distinguishable: SQL NULL is None.  A     *)
(* Python dict with string keys is a TLA+ function on those keys.          *)
(***************************************************************************)
EXTENDS Integers, Sequences, FiniteSets, TLC

VARIABLES
    matches,        \* the rows of the MySQL table `matches`
    next_match_id,  \* the AUTO_INCREMENT counter of matches.match_id
    now,            \* the store's clock (CURRENT_TIMESTAMP)
    log,            \* history: one entry per store call made so far
    data,           \* the payload make_request returned to the last feed call
    feed,           \* the last feed call: which function, what it returned
    http,           \* what requests.get did in the last feed call
    teams,          \* the rows of the table `teams`
    venues,         \* the rows of the table `venues`
    players,        \* the rows of the table `players`
    next_id,        \* the AUTO_INCREMENT counters of teams, venues, players
    connections,    \* the number of store connections open
    report          \* what the last page handler reported to the user

storeVars == <<matches, next_match_id, now, log>>
feedVars == <<data, feed, http>>
appVars == <<teams, venues, players, next_id, connections, report>>
vars == <<matches, next_match_id, now, log, data, feed, http,
          teams, venues, players, next_id, connections, report>>

----------------------------------------------------------------------------
(* Bounds of the model *)

\* store calls per behaviour
MaxCalls == 3

----------------------------------------------------------------------------
(* Python values *)

None == [t |-> "none", v |-> "None"]
PyInt(n) == [t |-> "int", v |-> n]
PyStr(s) == [t |-> "str", v |-> s]
PyDict(f) == [t |-> "dict", v |-> f]
PyList(s) == [t |-> "list", v |-> s]

\* d.get(k, default) on a dict d
DictGet(d, k, default) == IF k \in DOMAIN d THEN d[k] ELSE default

\* dict d without key k
Without(d, k) == [x \in DOMAIN d \ {k} |-> d[x]]

----------------------------------------------------------------------------
(* The matches table: schema, column conversions, the upsert statement *)

MatchColumns ==
    {"match_id", "cricbuzz_match_id", "match_description", "team1_id",
     "team2_id", "venue_id", "match_date", "match_format", "toss_winner",
     "toss_decision", "winning_team", "victory_margin", "match_status",
     "series_name", "current_status", "created_at"}

\* VARCHAR(50) of match_format and match_status
VarcharShort == 50
\* VARCHAR(255) of series_name
VarcharLong == 255

\* Dates the DATE column accepts (YYYY-MM-DD); anything else is rejected.
ValidDates == {"2024-08-29", "2024-08-28", "2024-08-25"}

\* INT column: NULL or an integer.
IntColumnAccepts(v) == v.t \in {"none", "int"}
\* TEXT column: NULL or a string.
TextColumnAccepts(v) == v.t \in {"none", "str"}
\* VARCHAR(n) column, strict SQL mode: NULL or a string of at most n characters.
VarcharColumnAccepts(v, n) ==
    \/ v.t = "none"
    \/ v.t = "str" /\ Len(v.v) <= n
\* DATE column, strict SQL mode: NULL or a well-formed date.
DateColumnAccepts(v) ==
    \/ v.t = "none"
    \/ v.t = "str" /\ v.v \in ValidDates

\* The parameter tuple insert_real_match_data binds, by target column.
UpsertParams(match_data) ==
    [cricbuzz_match_id |-> DictGet(match_data, "match_id", None),
     match_description |-> DictGet(match_data, "description", PyStr("")),
     match_format      |-> DictGet(match_data, "format", PyStr("")),
     match_date        |-> DictGet(match_data, "date", PyStr("2024-08-29")),
     series_name       |-> DictGet(match_data, "series", PyStr("")),
     current_status    |-> DictGet(match_data, "status", PyStr("")),
     match_status      |-> DictGet(match_data, "state", PyStr("Unknown"))]

\* Whether the store can convert every bound parameter to its column's type.
\* A value it cannot convert raises mysql.connector.Error.
StoreAccepts(p) ==
    /\ IntColumnAccepts(p.cricbuzz_match_id)
    /\ TextColumnAccepts(p.match_description)
    /\ VarcharColumnAccepts(p.match_format, VarcharShort)
    /\ DateColumnAccepts(p.match_date)
    /\ VarcharColumnAccepts(p.series_name, VarcharLong)
    /\ TextColumnAccepts(p.current_status)
    /\ VarcharColumnAccepts(p.match_status, VarcharShort)

\* Mutant of DuplicateKeyRows: the column without its UNIQUE index.
DuplicateKeyRows_NoUnique(tbl, p) == {}

\* Mutant of DuplicateKeyRows: a unique index in which NULL collides with NULL.
DuplicateKeyRows_NullCollides(tbl, p) ==
    {r \in tbl : r.cricbuzz_match_id = p.cricbuzz_match_id}

\* cricbuzz_match_id INT UNIQUE: the rows the new row would collide with.
\* NULL never collides (SQL: NULL is distinct from every value in a unique index).
DuplicateKeyRows(tbl, p) ==
    {r \in tbl : /\ p.cricbuzz_match_id # None
                 /\ r.cricbuzz_match_id = p.cricbuzz_match_id}

\* Mutant of InsertedRow: the statement also fills the team and venue keys.
InsertedRow_WithForeignKeys(p, id, ts) ==
    [match_id          |-> PyInt(id),
     cricbuzz_match_id |-> p.cricbuzz_match_id,
     match_description |-> p.match_description,
     team1_id          |-> PyInt(1),
     team2_id          |-> PyInt(2),
     venue_id          |-> PyInt(1),
     match_date        |-> p.match_date,
     match_format      |-> p.match_format,
     toss_winner       |-> None,
     toss_decision     |-> None,
     winning_team      |-> None,
     victory_margin    |-> None,
     match_status      |-> p.match_status,
     series_name       |-> p.series_name,
     current_status    |-> p.current_status,
     created_at        |-> PyInt(ts)]

\* INSERT INTO matches (cricbuzz_match_id, match_description, match_format,
\* match_date, series_name, current_status, match_status) VALUES (...):
\* the columns not listed take their defaults.
InsertedRow(p, id, ts) ==
    [match_id          |-> PyInt(id),
     cricbuzz_match_id |-> p.cricbuzz_match_id,
     match_description |-> p.match_description,
     team1_id          |-> None,
     team2_id          |-> None,
     venue_id          |-> None,
     match_date        |-> p.match_date,
     match_format      |-> p.match_format,
     toss_winner       |-> None,
     toss_decision     |-> None,
     winning_team      |-> None,
     victory_margin    |-> None,
     match_status      |-> p.match_status,
     series_name       |-> p.series_name,
     current_status    |-> p.current_status,
     created_at        |-> PyInt(ts)]

\* Mutant of OnDuplicateKeyUpdate: every inserted column is overwritten.
OnDuplicateKeyUpdate_AllColumns(r, p) ==
    [r EXCEPT !.current_status = p.current_status,
              !.match_status = p.match_status,
              !.match_description = p.match_description,
              !.match_format = p.match_format,
              !.match_date = p.match_date,
              !.series_name = p.series_name]

\* ON DUPLICATE KEY UPDATE current_status = VALUES(current_status),
\*                         match_status = VALUES(match_status)
OnDuplicateKeyUpdate(r, p) ==
    [r EXCEPT !.current_status = p.current_status,
              !.match_status = p.match_status]

\* Mutant of ExecuteUpsert: REPLACE INTO, which deletes the colliding row and
\* inserts a fresh one.
ExecuteUpsert_Replace(tbl, auto, ts, p) ==
    [matches |-> (tbl \ DuplicateKeyRows(tbl, p)) \cup {InsertedRow(p, auto, ts)},
     auto |-> auto + 1]

\* Mutant of ExecuteUpsert: on a collision the update reaches every row.
ExecuteUpsert_UpdatesEveryRow(tbl, auto, ts, p) ==
    IF DuplicateKeyRows(tbl, p) = {}
    THEN [matches |-> tbl \cup {InsertedRow(p, auto, ts)}, auto |-> auto + 1]
    ELSE [matches |-> {OnDuplicateKeyUpdate(r, p) : r \in tbl}, auto |-> auto]

\* The INSERT ... ON DUPLICATE KEY UPDATE statement on table tbl.
\* Yields the new table and the new AUTO_INCREMENT counter.
ExecuteUpsert(tbl, auto, ts, p) ==
    LET dup == DuplicateKeyRows(tbl, p) IN
    IF dup = {}
    THEN [matches |-> tbl \cup {InsertedRow(p, auto, ts)}, auto |-> auto + 1]
    ELSE [matches |-> (tbl \ dup) \cup {OnDuplicateKeyUpdate(r, p) : r \in dup},
          auto |-> auto]

\* Mutant of UpsertCatches: a handler that catches nothing.
UpsertCatches_Nothing(exc) == FALSE

\* except mysql.connector.Error as e: the exceptions the handler catches.
UpsertCatches(exc) == exc = "mysql.connector.Error"

\* insert_real_match_data(match_data).  connected: whether get_connection
\* obtained a connection; fault: whether the store fails the statement for a
\* reason of its own (connection lost, table missing, lock timeout).
insert_real_match_data(tbl, auto, ts, match_data, connected, fault) ==
    LET p == UpsertParams(match_data)
        exc == IF fault \/ ~StoreAccepts(p)
               THEN "mysql.connector.Error" ELSE "none"
        unchanged == [matches |-> tbl, auto |-> auto]
    IN
    IF ~connected
    THEN [ret |-> FALSE, raised |-> FALSE, db |-> unchanged]
    ELSE IF exc = "none"
    THEN [ret |-> TRUE, raised |-> FALSE, db |-> ExecuteUpsert(tbl, auto, ts, p)]
    ELSE IF UpsertCatches(exc)
    THEN [ret |-> FALSE, raised |-> FALSE, db |-> unchanged]
    ELSE [ret |-> FALSE, raised |-> TRUE, db |-> unchanged]

----------------------------------------------------------------------------
(* Inputs of the store calls *)

\* A record as get_recent_matches builds it.
FeedRecord(id, desc, status, state) ==
    [match_id    |-> id,
     description |-> PyStr(desc),
     format      |-> PyStr("TEST"),
     status      |-> PyStr(status),
     state       |-> PyStr(state),
     team1       |-> PyStr("India"),
     team2       |-> PyStr("Australia"),
     venue       |-> PyStr("Wankhede Stadium"),
     city        |-> PyStr("Mumbai"),
     series      |-> PyStr("India vs Australia Test Series 2024"),
     result      |-> PyStr(status),
     start_date  |-> PyStr("2024-08-28T09:30:00.000Z")]

LongState == "Innings Break - play suspended due to bad light and rain"

MatchDataInputs ==
    {FeedRecord(PyInt(12345), "1st Test", "Live", "Day 1"),
     FeedRecord(PyInt(12345), "1st Test", "Stumps", "Day 1 Complete"),
     FeedRecord(PyInt(12346), "2nd Test", "India won by 8 wickets", "Complete"),
     FeedRecord(None, "Warm-up", "Preview", "Upcoming"),
     \* same external id, every other field different
     [match_id |-> PyInt(12345), description |-> PyStr("Final"),
      format |-> PyStr("ODI"), date |-> PyStr("2024-08-25"),
      series |-> PyStr("Asia Cup"), status |-> PyStr("Abandoned")],
     \* a state longer than VARCHAR(50)
     FeedRecord(PyInt(12346), "2nd Test", "Rain", LongState),
     \* an identifier that is no integer
     FeedRecord(PyStr("n/a"), "3rd Test", "Live", "Day 2")}

\* A store found at process start: CREATE TABLE IF NOT EXISTS keeps the rows
\* of an existing table.  This one holds a match whose team and venue keys
\* were set outside the feed.
ExistingRow ==
    [match_id          |-> PyInt(1),
     cricbuzz_match_id |-> PyInt(12345),
     match_description |-> PyStr("India vs Australia - 1st Test"),
     team1_id          |-> PyInt(1),
     team2_id          |-> PyInt(2),
     venue_id          |-> PyInt(1),
     match_date        |-> PyStr("2024-08-28"),
     match_format      |-> PyStr("Test"),
     toss_winner       |-> PyStr("India"),
     toss_decision     |-> PyStr("bat"),
     winning_team      |-> None,
     victory_margin    |-> None,
     match_status      |-> PyStr("Scheduled"),
     series_name       |-> PyStr("Border-Gavaskar Trophy"),
     current_status    |-> None,
     created_at        |-> PyInt(0)]

InitialStores == {{}, {ExistingRow}}

----------------------------------------------------------------------------
(* State machine of the store *)

InitFeedIdle ==
    /\ data = None
    /\ http = [kind |-> "none", status |-> 0]
    /\ feed = [fn |-> "none", ret |-> <<>>, raised |-> FALSE, error |-> FALSE]

NoReport == [op |-> "none", count |-> 0, total |-> 0, first |-> 0]

\* No page handler has run; the other tables play no part.
InitAppIdle ==
    /\ teams = {}
    /\ venues = {}
    /\ players = {}
    /\ next_id = [teams |-> 1, venues |-> 1, players |-> 1]
    /\ connections = 0
    /\ report = NoReport

Init ==
    /\ matches \in InitialStores
    /\ next_match_id = Cardinality(matches) + 1
    /\ now = 1
    /\ log = <<>>
    /\ InitFeedIdle
    /\ InitAppIdle

\* What the environment does to one store call: the store answers, no
\* connection can be obtained, or the store fails the statement.
StoreEnvs == {"ok", "no_connection", "store_error"}

InsertRealMatchData ==
    /\ Len(log) < MaxCalls
    /\ \E match_data \in MatchDataInputs, env \in StoreEnvs :
         LET res == insert_real_match_data(matches, next_match_id, now,
                                           match_data,
                                           env # "no_connection",
                                           env = "store_error")
         IN /\ matches' = res.db.matches
            /\ next_match_id' = res.db.auto
            /\ log' = Append(log, [op |-> "insert_real_match_data",
                                   arg |-> match_data,
                                   env |-> env,
                                   ret |-> res.ret,
                                   raised |-> res.raised,
                                   before |-> matches,
                                   after |-> res.db.matches])
    /\ now' = now + 1
    /\ UNCHANGED feedVars
    /\ UNCHANGED appVars

Next == InsertRealMatchData

Spec == Init /\ [][Next]_vars

----------------------------------------------------------------------------
(* Python operations the feed traversal performs.  Each yields            *)
(* [exc, val]: the exception it raises ("none" when it returns) and its   *)
(* value.                                                                 *)

Returns(v) == [exc |-> "none", val |-> v]
Raises(e) == [exc |-> e, val |-> None]

\* Pairs <<k, s>> of the model's strings with k a substring of s.
SubstringPairs ==
    {<<"typeMatches", "typeMatches unavailable">>,
     <<"recent", "matches/v1/recent">>,
     <<"live", "matches/v1/live">>}
IsSubstring(k, s) == k = s \/ <<k, s>> \in SubstringPairs

\* k in x
PyIn(k, x) ==
    CASE x.t = "dict" -> Returns(k \in DOMAIN x.v)
      [] x.t = "list" -> Returns(\E i \in DOMAIN x.v : x.v[i] = PyStr(k))
      [] x.t = "str"  -> Returns(IsSubstring(k, x.v))
      [] OTHER        -> Raises("TypeError")

\* x[k], k a string
PySubscript(x, k) ==
    IF x.t = "dict"
    THEN IF k \in DOMAIN x.v THEN Returns(x.v[k]) ELSE Raises("KeyError")
    ELSE Raises("TypeError")

\* Mutant of PyGet: x[k] in the place of x.get(k, default).
PyGet_Subscript(x, k, default) == PySubscript(x, k)

\* Mutant of PyGet: a lookup that falls back to the empty string where the
\* code falls back to None.
PyGet_DefaultEmpty(x, k, default) ==
    IF x.t = "dict"
    THEN Returns(DictGet(x.v, k, IF default = None THEN PyStr("") ELSE default))
    ELSE Raises("AttributeError")

\* x.get(k, default)
PyGet(x, k, default) ==
    IF x.t = "dict" THEN Returns(DictGet(x.v, k, default))
    ELSE Raises("AttributeError")

\* for item in x: the items, for a list; None and numbers are not iterable.
\* (Strings and dicts in the place of a collection are not among the payloads
\* modelled.)
PyIter(x) ==
    CASE x.t = "list" -> Returns(x.v)
      [] x.t \in {"none", "int"} -> Raises("TypeError")

\* The exception of the first result that raised, "none" when none did.
FirstExc(rs) ==
    LET bad == {i \in DOMAIN rs : rs[i].exc # "none"} IN
    IF bad = {} THEN "none"
    ELSE rs[CHOOSE i \in bad : \A j \in bad : i <= j].exc

\* The values of a sequence of results.
Values(rs) == [i \in DOMAIN rs |-> rs[i].val]

\* The concatenation of a sequence of sequences.
RECURSIVE Flatten(_)
Flatten(ss) == IF ss = <<>> THEN <<>> ELSE Head(ss) \o Flatten(Tail(ss))

----------------------------------------------------------------------------
(* The feed traversal of get_live_matches and get_recent_matches *)

\* matches[:20] of get_recent_matches
RecentLimit == 20

\* s[:n]
Truncate_KeepsAll(s, n) == s

\* s[:n]
Truncate(s, n) == IF Len(s) <= n THEN s ELSE SubSeq(s, 1, n)

EmptyDict == PyDict(<<>>)

\* The dict appended for one leaf; fn is the function traversing
\* (get_recent_matches adds the key 'result').
MatchRecordOf(match, series_info, fn) ==
    LET mi == PyGet(match, "matchInfo", EmptyDict)
        match_info == mi.val
        team1 == PyGet(match_info, "team1", EmptyDict)
        team2 == PyGet(match_info, "team2", EmptyDict)
        venue == PyGet(match_info, "venueInfo", EmptyDict)
        match_id    == PyGet(match_info, "matchId", None)
        description == PyGet(match_info, "matchDesc", PyStr(""))
        format      == PyGet(match_info, "matchFormat", PyStr(""))
        status      == PyGet(match_info, "status", PyStr(""))
        state       == PyGet(match_info, "state", PyStr(""))
        team1_name  == PyGet(team1.val, "teamName", PyStr(""))
        team2_name  == PyGet(team2.val, "teamName", PyStr(""))
        ground      == PyGet(venue.val, "ground", PyStr(""))
        city        == PyGet(venue.val, "city", PyStr(""))
        series      == PyGet(series_info, "seriesName", PyStr(""))
        start_date  == PyGet(match_info, "startDate", PyStr(""))
        exc == FirstExc(<<mi, match_id, description, format, status, state,
                          team1, team1_name, team2, team2_name, venue, ground,
                          city, series, start_date>>)
        rec == [match_id    |-> match_id.val,
                description |-> description.val,
                format      |-> format.val,
                status      |-> status.val,
                state       |-> state.val,
                team1       |-> team1_name.val,
                team2       |-> team2_name.val,
                venue       |-> ground.val,
                city        |-> city.val,
                series      |-> series.val,
                start_date  |-> start_date.val]
    IN IF exc # "none" THEN Raises(exc)
       ELSE IF fn = "get_recent_matches"
       THEN Returns([k \in DOMAIN rec \cup {"result"} |->
                        IF k = "result" THEN status.val ELSE rec[k]])
       ELSE Returns(rec)

\* Mutant of MatchesLoop: each record is put in front of the earlier ones.
MatchesLoop_Prepends(ms, series_info, fn) ==
    LET rs == [i \in DOMAIN ms |->
                 MatchRecordOf(ms[Len(ms) + 1 - i], series_info, fn)] IN
    IF FirstExc(rs) # "none" THEN Raises(FirstExc(rs)) ELSE Returns(Values(rs))

\* for match in series_info['matches']: matches.append({...})
\* The records appended, in order; an exception ends the whole traversal.
MatchesLoop(ms, series_info, fn) ==
    LET rs == [i \in DOMAIN ms |-> MatchRecordOf(ms[i], series_info, fn)] IN
    IF FirstExc(rs) # "none" THEN Raises(FirstExc(rs)) ELSE Returns(Values(rs))

\* Mutant of SeriesBody: series['seriesAdWrapper']['matches'] read without
\* the two membership tests.
SeriesBody_NoGuard(series, fn) ==
    LET series_info == PySubscript(series, "seriesAdWrapper") IN
    IF series_info.exc # "none" THEN series_info
    ELSE LET ms == PySubscript(series_info.val, "matches") IN
         IF ms.exc # "none" THEN ms
         ELSE LET it == PyIter(ms.val) IN
              IF it.exc # "none" THEN it
              ELSE MatchesLoop(it.val, series_info.val, fn)

\* The body of `for series in match_type['seriesMatches']`: the records one
\* series appends.
SeriesBody(series, fn) ==
    LET hasWrapper == PyIn("seriesAdWrapper", series) IN
    IF hasWrapper.exc # "none" THEN hasWrapper
    ELSE IF ~hasWrapper.val THEN Returns(<<>>)
    ELSE LET series_info == PySubscript(series, "seriesAdWrapper") IN
         IF series_info.exc # "none" THEN series_info
         ELSE LET hasMatches == PyIn("matches", series_info.val) IN
              IF hasMatches.exc # "none" THEN hasMatches
              ELSE IF ~hasMatches.val THEN Returns(<<>>)
              ELSE LET ms == PySubscript(series_info.val, "matches") IN
                   IF ms.exc # "none" THEN ms
                   ELSE LET it == PyIter(ms.val) IN
                        IF it.exc # "none" THEN it
                        ELSE MatchesLoop(it.val, series_info.val, fn)

\* for series in match_type['seriesMatches']
SeriesLoop(ss, fn) ==
    LET rs == [i \in DOMAIN ss |-> SeriesBody(ss[i], fn)] IN
    IF FirstExc(rs) # "none" THEN Raises(FirstExc(rs))
    ELSE Returns(Flatten(Values(rs)))

\* The body of `for match_type in data['typeMatches']`.
GroupBody(match_type, fn) ==
    LET hasSeries == PyIn("seriesMatches", match_type) IN
    IF hasSeries.exc # "none" THEN hasSeries
    ELSE IF ~hasSeries.val THEN Returns(<<>>)
    ELSE LET ss == PySubscript(match_type, "seriesMatches") IN
         IF ss.exc # "none" THEN ss
         ELSE LET it == PyIter(ss.val) IN
              IF it.exc # "none" THEN it
              ELSE SeriesLoop(it.val, fn)

\* for match_type in data['typeMatches']
GroupLoop(gs, fn) ==
    LET rs == [i \in DOMAIN gs |-> GroupBody(gs[i], fn)] IN
    IF FirstExc(rs) # "none" THEN Raises(FirstExc(rs))
    ELSE Returns(Flatten(Values(rs)))

\* Mutant of Traverse: data['typeMatches'] read without the membership test.
Traverse_NoGuard(payload, fn) ==
    LET gs == PySubscript(payload, "typeMatches") IN
    IF gs.exc # "none" THEN gs
    ELSE LET it == PyIter(gs.val) IN
         IF it.exc # "none" THEN it
         ELSE GroupLoop(it.val, fn)

\* matches = []; if 'typeMatches' in data: for match_type in ...
Traverse(payload, fn) ==
    LET hasTypes == PyIn("typeMatches", payload) IN
    IF hasTypes.exc # "none" THEN hasTypes
    ELSE IF ~hasTypes.val THEN Returns(<<>>)
    ELSE LET gs == PySubscript(payload, "typeMatches") IN
         IF gs.exc # "none" THEN gs
         ELSE LET it == PyIter(gs.val) IN
              IF it.exc # "none" THEN it
              ELSE GroupLoop(it.val, fn)

\* Mutant of FeedCatches: a handler that catches nothing.
FeedCatches_Nothing(exc) == FALSE

\* except Exception as e: the exceptions the two feed functions catch.
FeedCatches(exc) == TRUE

\* What a feed function does once the traversal t has ended: its return
\* value, whether it raised to its caller, whether it called st.error.
FeedOutcome(t) ==
    IF t.exc = "none"
    THEN [ret |-> t.val, raised |-> FALSE, error |-> FALSE]
    ELSE IF FeedCatches(t.exc)
    THEN [ret |-> <<>>, raised |-> FALSE, error |-> TRUE]
    ELSE [ret |-> <<>>, raised |-> TRUE, error |-> FALSE]

\* get_live_matches, given what make_request returned: return matches
get_live_matches(payload) ==
    FeedOutcome(Traverse(payload, "get_live_matches"))

\* get_recent_matches, given what make_request returned: return matches[:20]
get_recent_matches(payload) ==
    LET o == FeedOutcome(Traverse(payload, "get_recent_matches")) IN
    [o EXCEPT !.ret = Truncate(o.ret, RecentLimit)]

----------------------------------------------------------------------------
(* make_request and the fallback payload *)

FallbackMatch(id, desc, date, state, status, ground, city) ==
    PyDict([matchInfo |-> PyDict(
        [matchId     |-> PyInt(id),
         matchDesc   |-> PyStr(desc),
         matchFormat |-> PyStr("TEST"),
         startDate   |-> PyStr(date),
         state       |-> PyStr(state),
         status      |-> PyStr(status),
         team1       |-> PyDict([teamName |-> PyStr("India"), teamSName |-> PyStr("IND")]),
         team2       |-> PyDict([teamName |-> PyStr("Australia"), teamSName |-> PyStr("AUS")]),
         venueInfo   |-> PyDict([ground |-> PyStr(ground), city |-> PyStr(city)])])])

FallbackMatches ==
    PyDict([typeMatches |-> PyList(<<
        PyDict([matchType |-> PyStr("International"),
                seriesMatches |-> PyList(<<
                    PyDict([seriesAdWrapper |-> PyDict(
                        [seriesName |-> PyStr("India vs Australia Test Series 2024"),
                         matches |-> PyList(<<
                            FallbackMatch(12345, "1st Test", "2024-08-28T09:30:00.000Z",
                                          "Live", "Day 1 - India 245/4 (75.0 Ovs)",
                                          "Wankhede Stadium", "Mumbai"),
                            FallbackMatch(12346, "2nd Test", "2024-08-25T09:30:00.000Z",
                                          "Complete", "India won by 8 wickets",
                                          "Eden Gardens", "Kolkata")>>)])])>>)])>>)])

get_fallback_data_SampleAlways(endpoint) == FallbackMatches

\* 'recent' in endpoint or 'live' in endpoint
get_fallback_data(endpoint) ==
    IF IsSubstring("recent", endpoint) \/ IsSubstring("live", endpoint)
    THEN FallbackMatches
    ELSE PyDict([data |-> PyList(<<>>), status |-> PyStr("fallback")])

\* The HTTP status make_request takes as success
StatusOk == 200

----------------------------------------------------------------------------
(* Payloads the feed may answer with *)

\* match-type groups, series per group, matches per series
MaxGroups == 3
MaxSeries == 3
MaxMatches == 3

MatchTypeNames == <<"International", "League", "Domestic", "Women">>
SeriesNames == <<"Test Series", "Asia Cup", "The Ashes", "Tri-Series">>
NameAt(names, i) == names[((i - 1) % Len(names)) + 1]

\* Identifiers unique per leaf and not sorted along the traversal.
LeafId(g, s, m) == 100 * m + 10 * s + g

GroupDefects == {"group_no_seriesMatches", "group_null", "seriesMatches_null"}
SeriesDefects == {"series_no_wrapper", "wrapper_no_matches",
                  "wrapper_no_seriesName", "wrapper_null"}
LeafDefects == {"leaf_no_matchInfo", "no_matchId", "matchId_null",
                "no_venueInfo", "no_team1", "matchInfo_empty", "leaf_null",
                "matchInfo_null", "venueInfo_null", "duplicate"}

NoDefect == [kind |-> "none", g |-> 0, s |-> 0, m |-> 0]

\* At most one place of a payload departs from the regular shape.
Defects(G, S, M) ==
    {NoDefect}
    \cup {[kind |-> k, g |-> g, s |-> 0, m |-> 0] : k \in GroupDefects, g \in 1..G}
    \cup {[kind |-> k, g |-> g, s |-> s, m |-> 0] :
            k \in SeriesDefects, g \in 1..G, s \in 1..S}
    \cup {[kind |-> k, g |-> g, s |-> s, m |-> m] :
            k \in LeafDefects, g \in 1..G, s \in 1..S, m \in 1..M}

MatchInfoAt(g, s, m) ==
    [matchId     |-> PyInt(LeafId(g, s, m)),
     matchDesc   |-> PyStr("1st Test"),
     matchFormat |-> PyStr("TEST"),
     startDate   |-> PyStr("2024-08-28T09:30:00.000Z"),
     state       |-> PyStr("Live"),
     status      |-> PyStr("Day 1 - India 245/4 (75.0 Ovs)"),
     team1       |-> PyDict([teamName |-> PyStr("India"), teamSName |-> PyStr("IND")]),
     team2       |-> PyDict([teamName |-> PyStr("Australia"), teamSName |-> PyStr("AUS")]),
     venueInfo   |-> PyDict([ground |-> PyStr("Wankhede Stadium"), city |-> PyStr("Mumbai")])]

LeafAt(g, s, m, d) ==
    LET mi == MatchInfoAt(g, s, m)
        k == IF d.g = g /\ d.s = s /\ d.m = m THEN d.kind ELSE "none"
    IN CASE k = "leaf_no_matchInfo" -> PyDict([adDetail |-> PyStr("ad")])
         [] k = "leaf_null"       -> None
         [] k = "matchInfo_null"  -> PyDict([matchInfo |-> None])
         [] k = "matchInfo_empty" -> PyDict([matchInfo |-> EmptyDict])
         [] k = "no_matchId"      -> PyDict([matchInfo |-> PyDict(Without(mi, "matchId"))])
         [] k = "matchId_null"    -> PyDict([matchInfo |-> PyDict([mi EXCEPT !.matchId = None])])
         [] k = "no_venueInfo"    -> PyDict([matchInfo |-> PyDict(Without(mi, "venueInfo"))])
         [] k = "venueInfo_null"  -> PyDict([matchInfo |-> PyDict([mi EXCEPT !.venueInfo = None])])
         [] k = "no_team1"        -> PyDict([matchInfo |-> PyDict(Without(mi, "team1"))])
         [] k = "duplicate"       -> PyDict([matchInfo |-> PyDict(MatchInfoAt(1, 1, 1))])
         [] OTHER                 -> PyDict([matchInfo |-> PyDict(mi)])

SeriesAt(g, s, M, d) ==
    LET wrapper == [seriesName |-> PyStr(NameAt(SeriesNames, s)),
                    matches |-> PyList([m \in 1..M |-> LeafAt(g, s, m, d)])]
        k == IF d.g = g /\ d.s = s /\ d.m = 0 THEN d.kind ELSE "none"
    IN CASE k = "series_no_wrapper"     -> PyDict([adDetail |-> PyStr("ad")])
         [] k = "wrapper_null"          -> PyDict([seriesAdWrapper |-> None])
         [] k = "wrapper_no_matches"    ->
                PyDict([seriesAdWrapper |-> PyDict(Without(wrapper, "matches"))])
         [] k = "wrapper_no_seriesName" ->
                PyDict([seriesAdWrapper |-> PyDict(Without(wrapper, "seriesName"))])
         [] OTHER -> PyDict([seriesAdWrapper |-> PyDict(wrapper)])

GroupAt(g, S, M, d) ==
    LET group == [matchType |-> PyStr(NameAt(MatchTypeNames, g)),
                  seriesMatches |-> PyList([s \in 1..S |-> SeriesAt(g, s, M, d)])]
        k == IF d.g = g /\ d.s = 0 /\ d.m = 0 THEN d.kind ELSE "none"
    IN CASE k = "group_no_seriesMatches" -> PyDict(Without(group, "seriesMatches"))
         [] k = "group_null"             -> None
         [] k = "seriesMatches_null"     -> PyDict([group EXCEPT !.seriesMatches = None])
         [] OTHER -> PyDict(group)

GridPayload(G, S, M, d) ==
    PyDict([typeMatches |-> PyList([g \in 1..G |-> GroupAt(g, S, M, d)])])

\* Payloads without the regular top level.
OddPayloads ==
    <<EmptyDict,
      PyDict([typeMatches |-> PyList(<<>>)]),
      PyDict([typeMatches |-> None]),
      PyDict([data |-> PyList(<<>>), status |-> PyStr("fallback")]),
      None,
      PyInt(503),
      PyStr("Service Unavailable"),
      PyStr("typeMatches unavailable"),
      PyList(<<>>),
      PyList(<<PyStr("typeMatches")>>)>>

\* The body of a response, named by what it decodes to: a grid payload, an
\* odd payload, or text that is no JSON.
Body(kind, G, S, M, d, i) ==
    [kind |-> kind, G |-> G, S |-> S, M |-> M, d |-> d, i |-> i]

GridBodies ==
    UNION {{Body("grid", sh[1], sh[2], sh[3], d, 0) : d \in Defects(sh[1], sh[2], sh[3])} :
              sh \in (1..MaxGroups) \X (1..MaxSeries) \X (1..MaxMatches)}

OddBodies == {Body("odd", 0, 0, 0, NoDefect, i) : i \in DOMAIN OddPayloads}

Undecodable == Body("undecodable", 0, 0, 0, NoDefect, 0)

Bodies == GridBodies \cup OddBodies \cup {Undecodable}

\* What requests.get may do: answer with a status and a body, or raise a
\* RequestException.
Responses ==
    {[kind |-> "http", status |-> StatusOk, body |-> b] : b \in Bodies}
    \cup {[kind |-> "http", status |-> st, body |-> Undecodable] : st \in {204, 404, 503}}
    \cup {[kind |-> k, status |-> 0, body |-> Undecodable] :
            k \in {"Timeout", "ConnectionError"}}

\* response.json(): the decoded body, or ValueError for text that is no JSON.
ResponseJson(body) ==
    CASE body.kind = "grid" -> Returns(GridPayload(body.G, body.S, body.M, body.d))
      [] body.kind = "odd"  -> Returns(OddPayloads[body.i])
      [] OTHER              -> Raises("ValueError")

\* make_request(endpoint), given what requests.get did.  Every exception is
\* caught and answered with the fallback data.
make_request(response, endpoint) ==
    IF response.kind # "http" THEN get_fallback_data(endpoint)
    ELSE IF response.status = StatusOk
    THEN LET json == ResponseJson(response.body) IN
         IF json.exc # "none" THEN get_fallback_data(endpoint) ELSE json.val
    ELSE get_fallback_data(endpoint)

----------------------------------------------------------------------------
(* State machine of the feed.  The two functions keep no state between    *)
(* calls, so a behaviour follows one call from the idle session.          *)

InitFeed ==
    /\ matches = {}
    /\ next_match_id = 1
    /\ now = 1
    /\ log = <<>>
    /\ InitFeedIdle
    /\ InitAppIdle

GetLiveMatches ==
    /\ feed.fn = "none"
    /\ \E response \in Responses :
         \E payload \in {make_request(response, "matches/v1/live")} :
            \E o \in {get_live_matches(payload)} :
               /\ data' = payload
               /\ http' = response
               /\ feed' = [fn |-> "get_live_matches", ret |-> o.ret,
                           raised |-> o.raised, error |-> o.error]
    /\ UNCHANGED storeVars
    /\ UNCHANGED appVars

GetRecentMatches ==
    /\ feed.fn = "none"
    /\ \E response \in Responses :
         \E payload \in {make_request(response, "matches/v1/recent")} :
            \E o \in {get_recent_matches(payload)} :
               /\ data' = payload
               /\ http' = response
               /\ feed' = [fn |-> "get_recent_matches", ret |-> o.ret,
                           raised |-> o.raised, error |-> o.error]
    /\ UNCHANGED storeVars
    /\ UNCHANGED appVars

\* get_team_rankings with the default format: return data
GetTeamRankings ==
    /\ feed.fn = "none"
    /\ \E response \in Responses :
         \E payload \in {make_request(response, "stats/v1/rankings/teams?formatType=odi")} :
            /\ data' = payload
            /\ http' = response
            /\ feed' = [fn |-> "get_team_rankings", ret |-> <<>>,
                        raised |-> FALSE, error |-> FALSE]
    /\ UNCHANGED storeVars
    /\ UNCHANGED appVars

NextFeed == GetLiveMatches \/ GetRecentMatches

SpecFeed == InitFeed /\ [][NextFeed]_vars

\* Every fetch of the client: the two match feeds and the rankings.
NextFetch ==
    \/ GetLiveMatches
    \/ GetRecentMatches
    \/ GetTeamRankings

SpecFetch == InitFeed /\ [][NextFetch]_vars

----------------------------------------------------------------------------
(* The schema init_database creates and the rows insert_initial_data seeds *)

\* A DECIMAL value, in tenths: 56.7 is PyDec(567).
PyDec(tenths) == [t |-> "decimal", v |-> tenths]

TeamColumns ==
    {"team_id", "team_name", "country", "matches_played", "matches_won",
     "matches_lost", "win_percentage"}

VenueColumns ==
    {"venue_id", "venue_name", "city", "country", "capacity", "established_year"}

PlayerColumns ==
    {"player_id", "name", "country", "playing_role", "batting_style",
     "bowling_style", "total_runs", "total_wickets", "batting_average",
     "bowling_average", "strike_rate", "economy_rate", "centuries", "fifties",
     "matches_played", "created_at"}

Tables == {"players", "teams", "venues", "matches"}

Columns ==
    [players |-> PlayerColumns, teams |-> TeamColumns,
     venues |-> VenueColumns, matches |-> MatchColumns]

PrimaryKey ==
    [players |-> "player_id", teams |-> "team_id",
     venues |-> "venue_id", matches |-> "match_id"]

\* The DEFAULT of every column that has one; the others default to NULL.
ColumnDefaults ==
    [players |-> [total_runs |-> PyInt(0), total_wickets |-> PyInt(0),
                  batting_average |-> PyDec(0), bowling_average |-> PyDec(0),
                  strike_rate |-> PyDec(0), economy_rate |-> PyDec(0),
                  centuries |-> PyInt(0), fifties |-> PyInt(0),
                  matches_played |-> PyInt(0)],
     teams |-> [matches_played |-> PyInt(0), matches_won |-> PyInt(0),
                matches_lost |-> PyInt(0), win_percentage |-> PyDec(0)],
     venues |-> [capacity |-> None],
     matches |-> [team1_id |-> None]]

\* NOT NULL columns
NotNullColumns ==
    [players |-> {"name"}, teams |-> {"team_name"},
     venues |-> {"venue_name"}, matches |-> {}]

\* UNIQUE columns
UniqueColumns ==
    [players |-> {}, teams |-> {"team_name"},
     venues |-> {}, matches |-> {"cricbuzz_match_id"}]

\* FOREIGN KEY (column) REFERENCES table(primary key)
ForeignKeys ==
    [players |-> <<>>, teams |-> <<>>, venues |-> <<>>,
     matches |-> [team1_id |-> "teams", team2_id |-> "teams", venue_id |-> "venues"]]

\* teams_data
TeamsData ==
    <<<<"India", "India", 150, 85, 65, 567>>,
      <<"Australia", "Australia", 140, 78, 62, 557>>,
      <<"England", "England", 130, 72, 58, 554>>,
      <<"Pakistan", "Pakistan", 125, 68, 57, 544>>,
      <<"New Zealand", "New Zealand", 120, 65, 55, 542>>,
      <<"South Africa", "South Africa", 115, 62, 53, 539>>,
      <<"West Indies", "West Indies", 110, 58, 52, 527>>,
      <<"Sri Lanka", "Sri Lanka", 105, 55, 50, 524>>>>

\* venues_data
VenuesData ==
    <<<<"Wankhede Stadium", "Mumbai", "India", 33108, 1974>>,
      <<"Lord's", "London", "England", 30000, 1814>>,
      <<"MCG", "Melbourne", "Australia", 100024, 1853>>,
      <<"Eden Gardens", "Kolkata", "India", 66000, 1864>>,
      <<"The Oval", "London", "England", 25000, 1845>>,
      <<"SCG", "Sydney", "Australia", 48000, 1848>>,
      <<"Old Trafford", "Manchester", "England", 26000, 1857>>,
      <<"Gaddafi Stadium", "Lahore", "Pakistan", 27000, 1959>>>>

\* players_data
PlayersData ==
    <<<<"Virat Kohli", "India", "Batsman", "Right-handed", "Right-arm medium",
        15000, 4, 505, 250, 925, 65, 50, 65, 250>>,
      <<"Rohit Sharma", "India", "Batsman", "Right-handed", "Right-arm off-break",
        14000, 8, 488, 302, 882, 58, 45, 70, 240>>,
      <<"Jasprit Bumrah", "India", "Bowler", "Right-handed", "Right-arm fast",
        800, 150, 155, 228, 854, 42, 0, 2, 120>>,
      <<"Babar Azam", "Pakistan", "Batsman", "Right-handed", "Right-arm off-break",
        12000, 2, 522, 400, 868, 55, 35, 55, 200>>,
      <<"Kane Williamson", "New Zealand", "Batsman", "Right-handed", "Right-arm off-break",
        11500, 5, 498, 356, 785, 48, 28, 62, 180>>,
      <<"Steve Smith", "Australia", "Batsman", "Right-handed", "Right-arm leg-break",
        13000, 12, 512, 284, 821, 52, 42, 58, 220>>,
      <<"Pat Cummins", "Australia", "Bowler", "Right-handed", "Right-arm fast",
        1200, 180, 182, 215, 952, 48, 1, 5, 150>>,
      <<"Ben Stokes", "England", "All-rounder", "Left-handed", "Right-arm fast-medium",
        8500, 95, 385, 288, 856, 51, 15, 45, 180>>,
      <<"Trent Boult", "New Zealand", "Bowler", "Left-handed", "Left-arm fast-medium",
        900, 165, 168, 242, 885, 46, 0, 3, 140>>,
      <<"David Warner", "Australia", "Batsman", "Left-handed", "",
        12500, 0, 448, 0, 928, 0, 38, 68, 210>>>>

\* The values one tuple of teams_data binds, by column.
TeamValues(t) ==
    [team_name |-> PyStr(t[1]), country |-> PyStr(t[2]),
     matches_played |-> PyInt(t[3]), matches_won |-> PyInt(t[4]),
     matches_lost |-> PyInt(t[5]), win_percentage |-> PyDec(t[6])]

VenueValues(t) ==
    [venue_name |-> PyStr(t[1]), city |-> PyStr(t[2]), country |-> PyStr(t[3]),
     capacity |-> PyInt(t[4]), established_year |-> PyInt(t[5])]

PlayerValues(t) ==
    [name |-> PyStr(t[1]), country |-> PyStr(t[2]), playing_role |-> PyStr(t[3]),
     batting_style |-> PyStr(t[4]), bowling_style |-> PyStr(t[5]),
     total_runs |-> PyInt(t[6]), total_wickets |-> PyInt(t[7]),
     batting_average |-> PyDec(t[8]), bowling_average |-> PyDec(t[9]),
     strike_rate |-> PyDec(t[10]), economy_rate |-> PyDec(t[11]),
     centuries |-> PyInt(t[12]), fifties |-> PyInt(t[13]),
     matches_played |-> PyInt(t[14])]

----------------------------------------------------------------------------
(* The statements the application sends, as the store executes them        *)

\* The store as one value: the four tables and their AUTO_INCREMENT counters.
Database(t, v, p, m, next) ==
    [teams |-> t, venues |-> v, players |-> p, matches |-> m, next |-> next]

\* The row an INSERT creates: the bound values, the generated key, and the
\* column default (NULL where the schema names none) for every other column.
NewRow(table, id, values, ts) ==
    [c \in Columns[table] |->
        IF c = PrimaryKey[table] THEN PyInt(id)
        ELSE IF c \in DOMAIN values THEN values[c]
        ELSE IF c = "created_at" THEN PyInt(ts)
        ELSE IF c \in DOMAIN ColumnDefaults[table] THEN ColumnDefaults[table][c]
        ELSE None]

\* Error 1054: the statement names a column the table does not have.
UnknownColumns(table, values) == (DOMAIN values) \ Columns[table]

\* Error 1048: NULL bound to a NOT NULL column (a column without a default
\* that the statement omits is error 1364).
NullViolation(table, values) ==
    \E c \in NotNullColumns[table] : c \notin DOMAIN values \/ values[c] = None

\* Error 1062: the value of a UNIQUE column is already in the table.
DuplicateEntry(db, table, values) ==
    \E c \in UniqueColumns[table] :
        /\ c \in DOMAIN values
        /\ values[c] # None
        /\ \E r \in db[table] : r[c] = values[c]

\* Error 1452: a foreign key names a row that does not exist.
NoReferencedRow(db, table, values) ==
    \E c \in DOMAIN ForeignKeys[table] :
        /\ c \in DOMAIN values
        /\ values[c] # None
        /\ ~\E r \in db[ForeignKeys[table][c]] :
               r[PrimaryKey[ForeignKeys[table][c]]] = values[c]

InsertAccepted(db, table, values) ==
    /\ UnknownColumns(table, values) = {}
    /\ ~NullViolation(table, values)
    /\ ~DuplicateEntry(db, table, values)
    /\ ~NoReferencedRow(db, table, values)

WithRow(db, table, values, ts) ==
    [db EXCEPT ![table] = @ \cup {NewRow(table, db.next[table], values, ts)},
               !.next[table] = @ + 1]

\* INSERT INTO table (...) VALUES (...), one row per element of rows; the
\* statement inserts every row or none.
RECURSIVE InsertRows(_, _, _, _, _)
InsertRows(db, table, rows, ts, i) ==
    IF i > Len(rows) THEN [ok |-> TRUE, db |-> db]
    ELSE IF ~InsertAccepted(db, table, rows[i]) THEN [ok |-> FALSE, db |-> db]
    ELSE InsertRows(WithRow(db, table, rows[i], ts), table, rows, ts, i + 1)

StillReferenced_Never(db, table, id) == FALSE

\* Error 1451: a matches row still references the row to delete.
StillReferenced(db, table, id) ==
    \E m \in db.matches : \E c \in DOMAIN ForeignKeys.matches :
        ForeignKeys.matches[c] = table /\ m[c] = PyInt(id)

\* DELETE FROM table WHERE <primary key> = id
DeleteRow(db, table, id) ==
    IF StillReferenced(db, table, id) THEN [ok |-> FALSE, db |-> db]
    ELSE [ok |-> TRUE,
          db |-> [db EXCEPT ![table] =
                     {r \in @ : r[PrimaryKey[table]] # PyInt(id)}]]

InsertStatement(table, rows) ==
    [kind |-> "insert", table |-> table, rows |-> rows, id |-> 0]

DeleteStatement(table, id) ==
    [kind |-> "delete", table |-> table, rows |-> <<>>, id |-> id]

\* UPDATE table SET column = value, ... WHERE <primary key> = id
UpdateStatement(table, values, id) ==
    [kind |-> "update", table |-> table, rows |-> <<values>>, id |-> id]

\* Error 1062 for an UPDATE: another row already holds the new value of a
\* UNIQUE column.
DuplicateOfOther(db, table, values, id) ==
    \E c \in UniqueColumns[table] :
        /\ c \in DOMAIN values
        /\ values[c] # None
        /\ \E r \in db[table] :
               r[PrimaryKey[table]] # PyInt(id) /\ r[c] = values[c]

UpdateAccepted(db, table, values, id) ==
    /\ UnknownColumns(table, values) = {}
    /\ \A c \in NotNullColumns[table] : c \in DOMAIN values => values[c] # None
    /\ ~DuplicateOfOther(db, table, values, id)
    /\ ~NoReferencedRow(db, table, values)

UpdateRow(db, table, values, id) ==
    IF ~UpdateAccepted(db, table, values, id) THEN [ok |-> FALSE, db |-> db]
    ELSE [ok |-> TRUE,
          db |-> [db EXCEPT ![table] =
                     {IF r[PrimaryKey[table]] = PyInt(id)
                      THEN [c \in Columns[table] |->
                               IF c \in DOMAIN values THEN values[c] ELSE r[c]]
                      ELSE r : r \in @}]]

Execute(db, stmt, ts) ==
    LET r == IF stmt.kind = "insert"
             THEN InsertRows(db, stmt.table, stmt.rows, ts, 1)
             ELSE IF stmt.kind = "update"
             THEN UpdateRow(db, stmt.table, stmt.rows[1], stmt.id)
             ELSE DeleteRow(db, stmt.table, stmt.id)
    IN IF r.ok THEN r ELSE [ok |-> FALSE, db |-> db]

----------------------------------------------------------------------------
(* DatabaseConnection: one connection per operation                        *)

\* The ways control leaves the try block of a store operation.
ConnectionPaths == {"returned", "early_return", "caught", "propagated"}

FinallyRuns_OnlyOnFallThrough(path) == path = "returned"

\* try: ... finally: if conn.is_connected(): conn.close()
\* The finally clause runs however the try block is left.
FinallyRuns(path) == path \in ConnectionPaths

\* The connections an operation leaves open when it returns: the one it
\* opened, unless its finally clause closed it.  get_connection returning
\* None opened nothing.
LeftOpen(connected, path) == IF connected /\ ~FinallyRuns(path) THEN 1 ELSE 0

\* A variant that applies the statement before it reports the store error.
execute_update_WritesThenFails(db, stmt, ts, env) ==
    IF env = "no_connection"
    THEN [ret |-> FALSE, db |-> db, open |-> 0]
    ELSE IF env = "store_error" \/ ~Execute(db, stmt, ts).ok
    THEN [ret |-> FALSE, db |-> Execute(db, stmt, ts).db, open |-> 0]
    ELSE [ret |-> TRUE, db |-> Execute(db, stmt, ts).db, open |-> 0]

\* execute_update: True when the statement ran and was committed, False when
\* no connection could be opened or the store raised.
execute_update(db, stmt, ts, env) ==
    LET r == Execute(db, stmt, ts) IN
    IF env = "no_connection"
    THEN [ret |-> FALSE, db |-> db, open |-> LeftOpen(FALSE, "returned")]
    ELSE IF env = "store_error" \/ ~r.ok
    THEN [ret |-> FALSE, db |-> db, open |-> LeftOpen(TRUE, "caught")]
    ELSE [ret |-> TRUE, db |-> r.db, open |-> LeftOpen(TRUE, "returned")]

\* execute_query of "SELECT ... FROM table": the rows, or an empty frame when
\* no connection could be opened or the read raised.
execute_query(db, table, env) ==
    IF env = "no_connection"
    THEN [ret |-> {}, open |-> LeftOpen(FALSE, "returned")]
    ELSE IF env = "store_error"
    THEN [ret |-> {}, open |-> LeftOpen(TRUE, "caught")]
    ELSE [ret |-> db[table], open |-> LeftOpen(TRUE, "returned")]

----------------------------------------------------------------------------
(* Schema bootstrap: init_database and insert_initial_data                 *)

\* The three executemany statements of insert_initial_data.
SeedTeams ==
    InsertStatement("teams", [i \in 1..Len(TeamsData) |-> TeamValues(TeamsData[i])])

SeedVenues ==
    InsertStatement("venues", [i \in 1..Len(VenuesData) |-> VenueValues(VenuesData[i])])

SeedPlayers ==
    InsertStatement("players", [i \in 1..Len(PlayersData) |-> PlayerValues(PlayersData[i])])

SeedEnvs ==
    {"ok", "no_connection", "fault_count", "fault_teams", "fault_venues",
     "fault_players"}

\* The statements run in order until one raises; every statement that ran is
\* kept, the connection being in autocommit mode.
RECURSIVE RunStatements(_, _, _, _, _)
RunStatements(db, stmts, faults, ts, i) ==
    IF i > Len(stmts) THEN [ok |-> TRUE, db |-> db]
    ELSE LET r == Execute(db, stmts[i], ts) IN
         IF faults[i] \/ ~r.ok THEN [ok |-> FALSE, db |-> db]
         ELSE RunStatements(r.db, stmts, faults, ts, i + 1)

\* A variant that seeds without looking at the store, venues first.
insert_initial_data_Unchecked(db, ts, env) ==
    LET r == RunStatements(db, <<SeedVenues, SeedTeams, SeedPlayers>>,
                           <<env = "fault_venues", env = "fault_teams",
                             env = "fault_players">>, ts, 1)
    IN
    IF env = "no_connection"
    THEN [db |-> db, open |-> LeftOpen(FALSE, "returned"), path |-> "no_connection"]
    ELSE IF env = "fault_count" \/ ~r.ok
    THEN [db |-> r.db, open |-> LeftOpen(TRUE, "caught"), path |-> "caught"]
    ELSE [db |-> r.db, open |-> LeftOpen(TRUE, "returned"), path |-> "returned"]

\* insert_initial_data: nothing when the players table has a row; otherwise
\* the sample teams, then the sample venues, then the sample players.
insert_initial_data(db, ts, env) ==
    LET r == RunStatements(db, <<SeedTeams, SeedVenues, SeedPlayers>>,
                           <<env = "fault_teams", env = "fault_venues",
                             env = "fault_players">>, ts, 1)
    IN
    IF env = "no_connection"
    THEN [db |-> db, open |-> LeftOpen(FALSE, "returned"), path |-> "no_connection"]
    ELSE IF env = "fault_count"
    THEN [db |-> db, open |-> LeftOpen(TRUE, "caught"), path |-> "caught"]
    ELSE IF Cardinality(db.players) > 0
    THEN [db |-> db, open |-> LeftOpen(TRUE, "early_return"), path |-> "early_return"]
    ELSE IF ~r.ok
    THEN [db |-> r.db, open |-> LeftOpen(TRUE, "caught"), path |-> "caught"]
    ELSE [db |-> r.db, open |-> LeftOpen(TRUE, "returned"), path |-> "returned"]

\* init_database: CREATE TABLE IF NOT EXISTS for the four tables, which
\* changes no row, then insert_initial_data on a connection of its own.
init_database(db, ts, env, seed_env) ==
    LET seed == insert_initial_data(db, ts, seed_env) IN
    IF env = "no_connection"
    THEN [db |-> db, open |-> LeftOpen(FALSE, "returned"), seeded |-> "not_called"]
    ELSE IF env = "store_error"
    THEN [db |-> db, open |-> LeftOpen(TRUE, "caught"), seeded |-> "not_called"]
    ELSE [db |-> seed.db, open |-> LeftOpen(TRUE, "returned") + seed.open,
          seeded |-> seed.path]

----------------------------------------------------------------------------
(* Storing the records of a fetch: 'Store All Recent Matches' of the      *)
(* matches page and populate_database_from_api                            *)

\* records per stored batch
MaxBatch == 3

\* The state a store loop carries: the store, the history, the count of
\* successes, and whether a call raised out of the loop.
LoopState(tbl, auto, ts, lg, count, raised) ==
    [matches |-> tbl, auto |-> auto, ts |-> ts, log |-> lg,
     count |-> count, raised |-> raised]

\* One iteration: success = db.insert_real_match_data(match);
\* if success: stored_count += 1
StoreOne(st, match, env) ==
    LET res == insert_real_match_data(st.matches, st.auto, st.ts, match,
                                      env # "no_connection", env = "store_error")
    IN LoopState(res.db.matches, res.db.auto, st.ts + 1,
                 Append(st.log, [op |-> "insert_real_match_data",
                                 arg |-> match,
                                 env |-> env,
                                 ret |-> res.ret,
                                 raised |-> res.raised,
                                 before |-> st.matches,
                                 after |-> res.db.matches]),
                 st.count + (IF res.ret THEN 1 ELSE 0),
                 res.raised)

\* Mutant of StoreLoop: the loop ends at the first record that was not stored.
RECURSIVE StoreLoop_StopsAtFailure(_, _, _)
StoreLoop_StopsAtFailure(records, envs, st) ==
    IF records = <<>> THEN st
    ELSE LET next == StoreOne(st, Head(records), Head(envs)) IN
         IF next.count = st.count THEN next
         ELSE StoreLoop_StopsAtFailure(Tail(records), Tail(envs), next)

\* for match in recent_matches: ...  envs[i] is what the environment does to
\* the i-th call.  An exception out of a call ends the loop.
RECURSIVE StoreLoop(_, _, _)
StoreLoop(records, envs, st) ==
    IF records = <<>> THEN st
    ELSE LET next == StoreOne(st, Head(records), Head(envs)) IN
         IF next.raised THEN next
         ELSE StoreLoop(Tail(records), Tail(envs), next)

\* Response bodies of the batches modelled: at most MaxBatch leaves.
BatchBodies ==
    {b \in Bodies : b.kind = "grid" => b.G * b.S * b.M <= MaxBatch}

BatchResponses ==
    {r \in Responses : r.body \in BatchBodies}

InitStoreAll == Init

\* The Recent Matches tab with 'Store All Recent Matches in Database'
\* pressed: the script fetches the recent matches and, when there are any,
\* stores each and reports "Stored count/total".
StoreAllRecentMatches ==
    /\ report.op = "none"
    /\ \E response \in BatchResponses :
         \E payload \in {make_request(response, "matches/v1/recent")} :
            \E o \in {get_recent_matches(payload)} :
               /\ o.ret # <<>>
               /\ data' = payload
               /\ http' = response
               /\ feed' = [fn |-> "get_recent_matches", ret |-> o.ret,
                           raised |-> o.raised, error |-> o.error]
               /\ \E envs \in [1..Len(o.ret) -> StoreEnvs] :
                    \E st \in {StoreLoop(o.ret, envs,
                                         LoopState(matches, next_match_id, now,
                                                   log, 0, FALSE))} :
                       /\ matches' = st.matches
                       /\ next_match_id' = st.auto
                       /\ now' = st.ts
                       /\ log' = st.log
                       /\ report' = [op |-> "store_all_recent_matches",
                                     count |-> st.count,
                                     total |-> Len(o.ret),
                                     first |-> Len(log) + 1]
    /\ UNCHANGED <<teams, venues, players, next_id, connections>>

\* populate_database_from_api(db_connection): fetch, store each record,
\* report the count (a warning when it is 0).
PopulateDatabaseFromApi ==
    /\ report.op = "none"
    /\ \E response \in BatchResponses :
         \E payload \in {make_request(response, "matches/v1/recent")} :
            \E o \in {get_recent_matches(payload)} :
               /\ data' = payload
               /\ http' = response
               /\ feed' = [fn |-> "get_recent_matches", ret |-> o.ret,
                           raised |-> o.raised, error |-> o.error]
               /\ \E envs \in [1..Len(o.ret) -> StoreEnvs] :
                    \E st \in {StoreLoop(o.ret, envs,
                                         LoopState(matches, next_match_id, now,
                                                   log, 0, FALSE))} :
                       /\ matches' = st.matches
                       /\ next_match_id' = st.auto
                       /\ now' = st.ts
                       /\ log' = st.log
                       /\ report' = [op |-> "populate_database_from_api",
                                     count |-> st.count,
                                     total |-> Len(o.ret),
                                     first |-> Len(log) + 1]
    /\ UNCHANGED <<teams, venues, players, next_id, connections>>

NextStoreAll == StoreAllRecentMatches \/ PopulateDatabaseFromApi

SpecStoreAll == InitStoreAll /\ [][NextStoreAll]_vars

----------------------------------------------------------------------------
(* The home page: 'Fetch Latest Matches'                                   *)

\* recent_matches[:10]
HomeLimit == 10

StoredSlice_All(recent_matches) == recent_matches

\* for match in recent_matches[:10]
StoredSlice(recent_matches) == Truncate(recent_matches, HomeLimit)

\* test_api_connection: True on status 200, False on any other status and
\* on any exception; the body is not read.
test_api_connection(response) ==
    response.kind = "http" /\ response.status = StatusOk

\* What the test request can meet
TestResponses == {r \in Responses : r.body = Undecodable}

\* Bodies of the home page runs: the small batches, and the complete grids
\* with more leaves than the page stores.
HomeBodies ==
    BatchBodies \cup
    {b \in Bodies : /\ b.kind = "grid"
                    /\ b.d = NoDefect
                    /\ b.G * b.S * b.M > HomeLimit}

HomeResponses == {r \in Responses : r.body \in HomeBodies}

\* What the environment does to the calls of a loop of n records: every
\* combination for a small batch, one failing call at most for a long one.
LoopEnvs(n) ==
    IF n <= MaxBatch THEN [1..n -> StoreEnvs]
    ELSE {[i \in 1..n |-> IF i = k THEN e ELSE "ok"] :
            k \in 0..n, e \in StoreEnvs \ {"ok"}}

\* 'Fetch Latest Matches' pressed: the connection test, then, when it
\* succeeded, the fetch and the store loop over the first records.
FetchLatestMatches ==
    /\ report.op = "none"
    /\ \E test \in TestResponses :
         IF ~test_api_connection(test)
         THEN /\ http' = test
              /\ report' = [op |-> "fetch_latest_matches", count |-> 0,
                            total |-> 0, first |-> Len(log) + 1,
                            api_working |-> FALSE]
              /\ UNCHANGED <<data, feed>>
              /\ UNCHANGED storeVars
         ELSE \E response \in HomeResponses :
                \E payload \in {make_request(response, "matches/v1/recent")} :
                   \E o \in {get_recent_matches(payload)} :
                      /\ data' = payload
                      /\ http' = response
                      /\ feed' = [fn |-> "get_recent_matches", ret |-> o.ret,
                                  raised |-> o.raised, error |-> o.error]
                      /\ \E envs \in LoopEnvs(Len(StoredSlice(o.ret))) :
                           \E st \in {StoreLoop(StoredSlice(o.ret), envs,
                                                LoopState(matches, next_match_id,
                                                          now, log, 0, FALSE))} :
                              /\ matches' = st.matches
                              /\ next_match_id' = st.auto
                              /\ now' = st.ts
                              /\ log' = st.log
                              /\ report' = [op |-> "fetch_latest_matches",
                                            count |-> st.count,
                                            total |-> Len(StoredSlice(o.ret)),
                                            first |-> Len(log) + 1,
                                            api_working |-> TRUE]
    /\ UNCHANGED <<teams, venues, players, next_id, connections>>

\* 'Test API Connection' pressed on the live page
TestApiConnection ==
    /\ report.op = "none"
    /\ \E test \in TestResponses :
         /\ http' = test
         /\ report' = [op |-> "test_api_connection", count |-> 0, total |-> 0,
                       first |-> Len(log) + 1,
                       api_working |-> test_api_connection(test)]
    /\ UNCHANGED <<data, feed>>
    /\ UNCHANGED storeVars
    /\ UNCHANGED <<teams, venues, players, next_id, connections>>

NextHome == FetchLatestMatches \/ TestApiConnection

SpecHome == Init /\ [][NextHome]_vars

----------------------------------------------------------------------------
(* The CRUD pages: add forms and the delete page                           *)

\* The bound on the operations of one run
MaxCrudOps == 2

Today == PyStr("2024-08-28")

\* The options of a select box built from a lookup: the empty choice, and
\* one choice per row, labelled by the row's name.
OptionKeys(rows, label_col) == {""} \cup {r[label_col].v : r \in rows}

\* The ids a label can stand for: None for the empty choice, else the id of
\* a row with that name (rows of one name overwrite each other in the
\* mapping, in an order the lookup does not fix).
OptionIds(rows, label_col, id_col, key) ==
    IF key = "" THEN {None}
    ELSE {r[id_col] : r \in {q \in rows : q[label_col].v = key}}

\* The statement of show_add_match_form
AddMatchStatement(form, team1_id, team2_id, venue_id) ==
    InsertStatement("matches",
        <<[match_description |-> PyStr(form.match_description),
           team1_id |-> team1_id,
           team2_id |-> team2_id,
           venue_id |-> venue_id,
           match_date |-> Today,
           match_format |-> PyStr(form.match_format),
           status |-> PyStr("Scheduled"),
           winning_team |-> None,
           victory_margin |-> None]>>)

\* show_add_match_form, submitted: the two lookups, the required-field and
\* distinct-team checks, then the INSERT through execute_update.
SameTeams_Never(form) == FALSE

\* team1 == team2: the two select boxes hold the same team name
SameTeams(form) == form.team1 = form.team2

show_add_match_form(db, form, team1_id, team2_id, venue_id, ts, envs) ==
    LET teams_df == execute_query(db, "teams", envs[1])
        venues_df == execute_query(db, "venues", envs[2])
        upd == execute_update(db, AddMatchStatement(form, team1_id, team2_id, venue_id),
                              ts, envs[3])
        lookups == teams_df.open + venues_df.open
        reads == <<Cardinality(teams_df.ret), Cardinality(venues_df.ret)>>
    IN
    IF form.match_description = "" \/ form.match_format = ""
       \/ form.team1 = "" \/ form.team2 = "" \/ form.venue = ""
    THEN [msg |-> "Please fill required fields marked with *",
          db |-> db, open |-> lookups, updates |-> <<>>, reads |-> reads]
    ELSE IF SameTeams(form)
    THEN [msg |-> "Team 1 and Team 2 must be different",
          db |-> db, open |-> lookups, updates |-> <<>>, reads |-> reads]
    ELSE [msg |-> IF upd.ret THEN "Match added successfully!"
                  ELSE "Failed to add match",
          db |-> upd.db, open |-> lookups + upd.open,
          updates |-> <<AddMatchStatement(form, team1_id, team2_id, venue_id)>>,
          reads |-> reads]

AddMatchForm(d, f, team1, team2, venue) ==
    [match_description |-> d, match_format |-> f,
     team1 |-> team1, team2 |-> team2, venue |-> venue]

AddMatchForms ==
    {AddMatchForm("India vs Australia - 1st Test", "Test", "India", "Australia", "MCG"),
     AddMatchForm("India vs Australia - 1st Test", "Test", "India", "India", "MCG"),
     AddMatchForm("", "Test", "India", "Australia", "MCG"),
     AddMatchForm("Kenya vs India - Only ODI", "ODI", "Kenya", "India", "")}

\* The outcomes of the connections a handler opens, in the order it opens
\* them.
HandlerEnvs ==
    {<<"ok", "ok", "ok">>, <<"ok", "ok", "store_error">>,
     <<"ok", "ok", "no_connection">>, <<"ok", "store_error", "ok">>}

\* The statement of show_add_team_form
AddTeamStatement(form) ==
    InsertStatement("teams",
        <<[team_name |-> PyStr(form.team_name), country |-> PyStr(form.country),
           matches_played |-> PyInt(0), matches_won |-> PyInt(0),
           matches_lost |-> PyInt(0), win_percentage |-> PyDec(0)]>>)

\* show_add_team_form, submitted with the counters left at 0
show_add_team_form(db, form, ts, env) ==
    LET upd == execute_update(db, AddTeamStatement(form), ts, env) IN
    IF form.team_name = "" \/ form.country = ""
    THEN [msg |-> "Please fill required fields marked with *", db |-> db, open |-> 0,
          updates |-> <<>>, reads |-> <<>>]
    ELSE [msg |-> IF upd.ret THEN "Team added successfully!" ELSE "Failed to add team",
          db |-> upd.db, open |-> upd.open, updates |-> <<AddTeamStatement(form)>>,
          reads |-> <<>>]

AddTeamForms ==
    {[team_name |-> n, country |-> "Kenya"] : n \in {"", "Kenya", "India"}}

\* The statement of show_add_venue_form
AddVenueStatement(form) ==
    InsertStatement("venues",
        <<[venue_name |-> PyStr(form.venue_name), city |-> PyStr(form.city),
           country |-> PyStr(form.country), capacity |-> PyInt(0),
           established_year |-> PyInt(2000)]>>)

\* show_add_venue_form, submitted with capacity and year left at their
\* initial values
show_add_venue_form(db, form, ts, env) ==
    LET upd == execute_update(db, AddVenueStatement(form), ts, env) IN
    IF form.venue_name = "" \/ form.city = "" \/ form.country = ""
    THEN [msg |-> "Please fill required fields marked with *", db |-> db, open |-> 0,
          updates |-> <<>>, reads |-> <<>>]
    ELSE [msg |-> IF upd.ret THEN "Venue added successfully!" ELSE "Failed to add venue",
          db |-> upd.db, open |-> upd.open, updates |-> <<AddVenueStatement(form)>>,
          reads |-> <<>>]

AddVenueForms ==
    {[venue_name |-> n, city |-> "Nairobi", country |-> "Kenya"] :
        n \in {"", "Gymkhana"}}

\* The statement of show_add_player_form
AddPlayerStatement(form) ==
    InsertStatement("players",
        <<[name |-> PyStr(form.name), country |-> PyStr(form.country),
           playing_role |-> PyStr(form.role), batting_style |-> PyStr(""),
           bowling_style |-> PyStr(""), total_runs |-> PyInt(0),
           total_wickets |-> PyInt(0), batting_average |-> PyDec(0),
           bowling_average |-> PyDec(0), strike_rate |-> PyDec(0),
           economy_rate |-> PyDec(0), centuries |-> PyInt(0),
           fifties |-> PyInt(0), matches_played |-> PyInt(0)]>>)

\* show_add_player_form, submitted with the optional fields left untouched
show_add_player_form(db, form, ts, env) ==
    LET upd == execute_update(db, AddPlayerStatement(form), ts, env) IN
    IF form.name = "" \/ form.country = "" \/ form.role = ""
    THEN [msg |-> "Please fill required fields marked with *", db |-> db, open |-> 0,
          updates |-> <<>>, reads |-> <<>>]
    ELSE [msg |-> IF upd.ret THEN "Player added successfully!" ELSE "Failed to add player",
          db |-> upd.db, open |-> upd.open, updates |-> <<AddPlayerStatement(form)>>,
          reads |-> <<>>]

AddPlayerForms ==
    {[name |-> "Steve Tikolo", country |-> "Kenya", role |-> r] :
        r \in {"", "Batsman"}}

\* The statement of edit_match
EditMatchStatement(row, form, team1_id, team2_id, venue_id) ==
    UpdateStatement("matches",
        [match_description |-> PyStr(form.match_description),
         team1_id |-> team1_id,
         team2_id |-> team2_id,
         venue_id |-> venue_id,
         match_date |-> row.match_date,
         match_format |-> PyStr("Test"),
         status |-> PyStr("Scheduled"),
         winning_team |-> None,
         victory_margin |-> None],
        row.match_id.v)

\* The keys of the select boxes of edit_match: the names found, or the
\* single empty choice when the lookup found none.
EditKeys(rows, label_col) ==
    IF rows = {} THEN {""} ELSE {r[label_col].v : r \in rows}

\* team_options.get(key)
EditIds(rows, label_col, id_col, key) ==
    IF \E r \in rows : r[label_col].v = key
    THEN {r[id_col] : r \in {q \in rows : q[label_col].v = key}}
    ELSE {None}

\* edit_match with 'Save Match' pressed: the listing, the row, the two
\* lookups, the distinct-team check, then the UPDATE through execute_update.
edit_match(db, match_id, form, team1_id, team2_id, venue_id, ts, envs) ==
    LET df == execute_query(db, "matches", envs[1])
        found == execute_query(db, "matches", envs[2])
        rows == {r \in found.ret : r.match_id = PyInt(match_id)}
        teams_df == execute_query(db, "teams", envs[3])
        venues_df == execute_query(db, "venues", envs[4])
        stmt == EditMatchStatement(CHOOSE r \in rows : TRUE, form,
                                   team1_id, team2_id, venue_id)
        upd == execute_update(db, stmt, ts, envs[5])
        opened == df.open + found.open + teams_df.open + venues_df.open
        reads == <<Cardinality(df.ret), Cardinality(found.ret),
                   Cardinality(teams_df.ret), Cardinality(venues_df.ret)>>
    IN
    IF df.ret = {}
    THEN [msg |-> "No Matchs available.", db |-> db, open |-> df.open,
          updates |-> <<>>, reads |-> <<0>>]
    ELSE IF rows = {}
    THEN [msg |-> "IndexError", db |-> db, open |-> df.open + found.open,
          updates |-> <<>>, reads |-> SubSeq(reads, 1, 2)]
    ELSE IF SameTeams(form)
    THEN [msg |-> "Team 1 and Team 2 must be different", db |-> db,
          open |-> opened, updates |-> <<>>, reads |-> reads]
    ELSE [msg |-> IF upd.ret THEN "Match updated" ELSE "Update failed",
          db |-> upd.db, open |-> opened + upd.open, updates |-> <<stmt>>,
          reads |-> reads]

EditMatchForm(d, team1, team2, venue) ==
    [match_description |-> d, team1 |-> team1, team2 |-> team2, venue |-> venue]

EditMatchForms ==
    {EditMatchForm("India vs Australia - 2nd Test", "Australia", "India", "Lord's"),
     EditMatchForm("India vs Australia - 2nd Test", "India", "India", "MCG"),
     EditMatchForm("India vs Australia - 2nd Test", "", "", "MCG")}

EditEnvs ==
    {<<"ok", "ok", "ok", "ok", "ok">>,
     <<"ok", "ok", "ok", "ok", "store_error">>,
     <<"ok", "ok", "no_connection", "ok", "ok">>}

\* The match ids the edit page is driven with
EditMatchIds == {1}

\* The ids the delete page is driven with
DeleteIds == {1, 9}

\* Text as the sequence of its characters
Whitespace == {" ", "\t", "\n"}

\* str.strip(): the text without its leading and trailing whitespace
RECURSIVE Strip(_)
Strip(text) ==
    IF text = <<>> THEN <<>>
    ELSE IF text[1] \in Whitespace THEN Strip(Tail(text))
    ELSE IF text[Len(text)] \in Whitespace THEN Strip(SubSeq(text, 1, Len(text) - 1))
    ELSE text

DecimalDigits == <<"0", "1", "2", "3", "4", "5", "6", "7", "8", "9">>

\* str(n) of a non-negative integer
RECURSIVE Str(_)
Str(n) ==
    IF n < 10 THEN <<DecimalDigits[n + 1]>>
    ELSE Str(n \div 10) \o <<DecimalDigits[(n % 10) + 1]>>

\* What the user enters next to the chosen row: the checkbox and the text.
Confirmations ==
    {[confirm1 |-> TRUE, confirm_text |-> <<"1">>],
     [confirm1 |-> TRUE, confirm_text |-> <<" ", "9", " ">>],
     [confirm1 |-> FALSE, confirm_text |-> <<"1">>],
     [confirm1 |-> TRUE, confirm_text |-> <<"1", " ", "9">>]}

Confirmed_TextOnly(confirmation, chosen_id) ==
    Strip(confirmation.confirm_text) = Str(chosen_id)

\* not (not confirm1 or confirm_text.strip() != str(chosen_id))
Confirmed(confirmation, chosen_id) ==
    ~(~confirmation.confirm1 \/ Strip(confirmation.confirm_text) # Str(chosen_id))

\* _delete_entity with the Delete button pressed: the listing, the preview,
\* the confirmation check, then the DELETE through execute_update.
delete_entity(db, table, chosen_id, confirmation, ts, envs) ==
    LET df == execute_query(db, table, envs[1])
        preview == execute_query(db, table, envs[2])
        upd == execute_update(db, DeleteStatement(table, chosen_id), ts, envs[3])
    IN
    IF df.ret = {}
    THEN [msg |-> "No rows to delete.", db |-> db, open |-> df.open,
          updates |-> <<>>, reads |-> <<0>>]
    ELSE IF ~Confirmed(confirmation, chosen_id)
    THEN [msg |-> "Confirmation failed. Type the correct ID and check the box.",
          db |-> db, open |-> df.open + preview.open, updates |-> <<>>,
          reads |-> <<Cardinality(df.ret), Cardinality(preview.ret)>>]
    ELSE [msg |-> IF upd.ret THEN "Deleted" ELSE "Delete failed",
          db |-> upd.db, open |-> df.open + preview.open + upd.open,
          updates |-> <<DeleteStatement(table, chosen_id)>>,
          reads |-> <<Cardinality(df.ret), Cardinality(preview.ret)>>]

\* The stores a run starts from: every one is a store the application can
\* leave behind.  Seeded is the store after a first start; the others are
\* Seeded after a stored match, after deletes (and an added team) through
\* the CRUD pages, and the schema alone when seeding could not connect.
SchemaOnly ==
    Database({}, {}, {}, {}, [teams |-> 1, venues |-> 1, players |-> 1, matches |-> 1])

Seeded == insert_initial_data(SchemaOnly, 0, "ok").db

SeededWithMatch ==
    [Seeded EXCEPT !.matches = {ExistingRow}, !.next.matches = 2]

OnePlayerLeft ==
    [Seeded EXCEPT !.players = {r \in @ : r.player_id = PyInt(1)}]

NoPlayers == [Seeded EXCEPT !.players = {}]

OwnTeamOnly ==
    [WithRow(Seeded, "teams", AddTeamStatement([team_name |-> "Kenya", country |-> "Kenya"]).rows[1], 0)
        EXCEPT !.players = {r \in @ : r.player_id = PyInt(1)},
               !.teams = {r \in @ : r.team_id = PyInt(9)},
               !.venues = {}]

CrudStores ==
    {SchemaOnly, SeededWithMatch, OnePlayerLeft, NoPlayers, OwnTeamOnly}

CurrentDatabase ==
    Database(teams, venues, players, matches,
             [teams |-> next_id.teams, venues |-> next_id.venues,
              players |-> next_id.players, matches |-> next_match_id])

\* The store becomes db, one more connection count is added, and the
\* operation is logged with the store before and after it.
Commit(op, arg, env, ret, db, open, updates, reads) ==
    /\ teams' = db.teams
    /\ venues' = db.venues
    /\ players' = db.players
    /\ matches' = db.matches
    /\ next_id' = [teams |-> db.next.teams, venues |-> db.next.venues,
                   players |-> db.next.players]
    /\ next_match_id' = db.next.matches
    /\ connections' = connections + open
    /\ log' = Append(log, [op |-> op, arg |-> arg, env |-> env, ret |-> ret,
                           raised |-> FALSE, updates |-> updates,
                           reads |-> reads,
                           before |-> CurrentDatabase, after |-> db])
    /\ now' = now + 1
    /\ UNCHANGED report
    /\ UNCHANGED feedVars

InitCrud ==
    /\ \E db \in CrudStores :
         /\ teams = db.teams
         /\ venues = db.venues
         /\ players = db.players
         /\ matches = db.matches
         /\ next_id = [teams |-> db.next.teams, venues |-> db.next.venues,
                       players |-> db.next.players]
         /\ next_match_id = db.next.matches
    /\ now = 1
    /\ log = <<>>
    /\ connections = 0
    /\ report = NoReport
    /\ InitFeedIdle

\* A new session constructs DatabaseConnection, which runs init_database.
StartSession ==
    /\ Len(log) < MaxCrudOps
    /\ \E env \in StoreEnvs, seed_env \in SeedEnvs :
         /\ env # "ok" => seed_env = "ok"
         /\ \E r \in {init_database(CurrentDatabase, now, env, seed_env)} :
              Commit("init_database", <<>>, <<env, seed_env>>, r.seeded, r.db, r.open, <<>>, <<>>)

AddMatch ==
    /\ Len(log) < MaxCrudOps
    /\ \E form \in AddMatchForms, envs \in HandlerEnvs :
         \E teams_df \in {execute_query(CurrentDatabase, "teams", envs[1]).ret},
            venues_df \in {execute_query(CurrentDatabase, "venues", envs[2]).ret} :
           /\ form.team1 \in OptionKeys(teams_df, "team_name")
           /\ form.team2 \in OptionKeys(teams_df, "team_name")
           /\ form.venue \in OptionKeys(venues_df, "venue_name")
           /\ \E team1_id \in OptionIds(teams_df, "team_name", "team_id", form.team1),
                 team2_id \in OptionIds(teams_df, "team_name", "team_id", form.team2),
                 venue_id \in OptionIds(venues_df, "venue_name", "venue_id", form.venue) :
                \E r \in {show_add_match_form(CurrentDatabase, form, team1_id, team2_id,
                                              venue_id, now, envs)} :
                    Commit("show_add_match_form",
                           [form |-> form, team1_id |-> team1_id,
                            team2_id |-> team2_id, venue_id |-> venue_id],
                           envs, r.msg, r.db, r.open, r.updates, r.reads)

AddTeam ==
    /\ Len(log) < MaxCrudOps
    /\ \E form \in AddTeamForms, env \in {"ok", "no_connection"} :
         \E r \in {show_add_team_form(CurrentDatabase, form, now, env)} :
             Commit("show_add_team_form", form, env, r.msg, r.db, r.open, r.updates, r.reads)

AddVenue ==
    /\ Len(log) < MaxCrudOps
    /\ \E form \in AddVenueForms, env \in {"ok"} :
         \E r \in {show_add_venue_form(CurrentDatabase, form, now, env)} :
             Commit("show_add_venue_form", form, env, r.msg, r.db, r.open, r.updates, r.reads)

AddPlayer ==
    /\ Len(log) < MaxCrudOps
    /\ \E form \in AddPlayerForms, env \in {"ok"} :
         \E r \in {show_add_player_form(CurrentDatabase, form, now, env)} :
             Commit("show_add_player_form", form, env, r.msg, r.db, r.open, r.updates, r.reads)

\* The page offers the rows of the listing and the names of the lookups.
EditMatch ==
    /\ Len(log) < MaxCrudOps
    /\ \E match_id \in EditMatchIds, form \in EditMatchForms, envs \in EditEnvs :
         \E teams_df \in {execute_query(CurrentDatabase, "teams", envs[3]).ret},
            venues_df \in {execute_query(CurrentDatabase, "venues", envs[4]).ret} :
           /\ PyInt(match_id) \in
                  {r.match_id : r \in execute_query(CurrentDatabase, "matches", envs[1]).ret}
           /\ form.team1 \in EditKeys(teams_df, "team_name")
           /\ form.team2 \in EditKeys(teams_df, "team_name")
           /\ form.venue \in EditKeys(venues_df, "venue_name")
           /\ \E team1_id \in EditIds(teams_df, "team_name", "team_id", form.team1),
                 team2_id \in EditIds(teams_df, "team_name", "team_id", form.team2),
                 venue_id \in EditIds(venues_df, "venue_name", "venue_id", form.venue) :
                \E r \in {edit_match(CurrentDatabase, match_id, form, team1_id,
                                     team2_id, venue_id, now, envs)} :
                    Commit("edit_match",
                           [match_id |-> match_id, form |-> form,
                            team1_id |-> team1_id, team2_id |-> team2_id,
                            venue_id |-> venue_id],
                           envs, r.msg, r.db, r.open, r.updates, r.reads)

\* The page offers the rows of the listing; without rows there is no button.
DeleteEntity ==
    /\ Len(log) < MaxCrudOps
    /\ \E table \in Tables, chosen_id \in DeleteIds,
          envs \in HandlerEnvs \ {<<"ok", "store_error", "ok">>},
          confirmation \in Confirmations :
         /\ PyInt(chosen_id) \in
                {r[PrimaryKey[table]] : r \in execute_query(CurrentDatabase, table, envs[1]).ret}
         /\ ~Confirmed(confirmation, chosen_id) => envs = <<"ok", "ok", "ok">>
         /\ \E r \in {delete_entity(CurrentDatabase, table, chosen_id,
                                    confirmation, now, envs)} :
              Commit("_delete_entity", [table |-> table, id |-> chosen_id,
                                        confirmation |-> confirmation],
                     envs, r.msg, r.db, r.open, r.updates, r.reads)

\* The live matches the page lists when the feed is served from the fallback
ShownLiveMatches == get_live_matches(get_fallback_data("matches/v1/live")).ret

\* The 'Store Match' button next to a live match
StoreMatch ==
    /\ Len(log) < MaxCrudOps
    /\ \E i \in 1..Len(ShownLiveMatches), env \in StoreEnvs :
         \E r \in {insert_real_match_data(matches, next_match_id, now,
                                          ShownLiveMatches[i],
                                          env # "no_connection",
                                          env = "store_error")} :
             Commit("insert_real_match_data", ShownLiveMatches[i], env, r.ret,
                    [CurrentDatabase EXCEPT !.matches = r.db.matches,
                                            !.next.matches = r.db.auto],
                    LeftOpen(env # "no_connection",
                             IF r.raised THEN "propagated"
                             ELSE IF r.ret THEN "returned" ELSE "caught"),
                    <<>>, <<>>)

NextCrud ==
    \/ StartSession
    \/ AddMatch
    \/ AddTeam
    \/ AddVenue
    \/ AddPlayer
    \/ EditMatch
    \/ DeleteEntity
    \/ StoreMatch

SpecCrud == InitCrud /\ [][NextCrud]_vars

----------------------------------------------------------------------------
(* Helpers of the store claims *)

InitialStore == IF log = <<>> THEN matches ELSE log[1].before

RowsWithExternalId(tbl, k) == {r \in tbl : r.cricbuzz_match_id = k}

ExternalIds == {PyInt(12345), PyInt(12346)}

\* The external id a call carries.
SentId(e) == DictGet(e.arg, "match_id", None)

\* The successful upserts of the log that carry external id k, in call order.
SuccessfulUpserts(k) ==
    SelectSeq(log, LAMBDA e : e.op = "insert_real_match_data" /\ e.ret /\ SentId(e) = k)

\* Log entries of upserts that found a row with their external id.
IsUpdateOfExisting(e) ==
    /\ e.op = "insert_real_match_data"
    /\ e.ret
    /\ SentId(e) # None
    /\ RowsWithExternalId(e.before, SentId(e)) # {}

LogEntries == {log[i] : i \in DOMAIN log}

----------------------------------------------------------------------------
(* C1 *)

\* C1: after any sequence of insert_real_match_data calls, the matches table
\* holds at most one row for each non-null external id (cricbuzz_match_id).
C1_AtMostOneRowPerExternalId ==
    \A r1 \in matches : \A r2 \in matches :
        (r1.cricbuzz_match_id # None /\ r1.cricbuzz_match_id = r2.cricbuzz_match_id)
            => r1 = r2

\* Two successful upserts carried 12345 and a third id was stored too.
C1_Witness ==
    /\ Len(SuccessfulUpserts(PyInt(12345))) >= 2
    /\ Cardinality(RowsWithExternalId(matches, PyInt(12345))) = 1
    /\ Cardinality(RowsWithExternalId(matches, PyInt(12346))) = 1

----------------------------------------------------------------------------
(* C2 *)

\* C2: for any sequence of successful upserts carrying the same non-null
\* external id (on a store that held no row for it), exactly one row with that
\* id is stored; its current_status and match_status are those of the most
\* recent call, and its description, format, date and series name are those
\* of the first call.  {12345, 'Live'} then {12345, 'Stumps'} leaves one row
\* for 12345 whose status is 'Stumps'.
C2_LastStatusFirstRest ==
    \A k \in ExternalIds :
        LET calls == SuccessfulUpserts(k)
            first == calls[1].arg
            last == calls[Len(calls)].arg
            rows == RowsWithExternalId(matches, k)
        IN (calls # <<>> /\ RowsWithExternalId(InitialStore, k) = {}) =>
            /\ Cardinality(rows) = 1
            /\ \A r \in rows :
                /\ r.current_status = DictGet(last, "status", PyStr(""))
                /\ r.match_status = DictGet(last, "state", PyStr("Unknown"))
                /\ r.match_description = DictGet(first, "description", PyStr(""))
                /\ r.match_format = DictGet(first, "format", PyStr(""))
                /\ r.match_date = DictGet(first, "date", PyStr("2024-08-29"))
                /\ r.series_name = DictGet(first, "series", PyStr(""))
                /\ (first.status = PyStr("Live") /\ last.status = PyStr("Stumps"))
                       => r.current_status = PyStr("Stumps")

\* 'Live' was stored first, then 'Stumps' and then a record differing in
\* every field arrived for the same id.
C2_Witness ==
    LET calls == SuccessfulUpserts(PyInt(12345)) IN
    /\ InitialStore = {}
    /\ Len(calls) = 3
    /\ calls[1].arg.status = PyStr("Live")
    /\ calls[2].arg.status = PyStr("Stumps")
    /\ calls[3].arg.description = PyStr("Final")
    /\ \E r \in matches : /\ r.cricbuzz_match_id = PyInt(12345)
                          /\ r.current_status = PyStr("Abandoned")
                          /\ r.match_description = PyStr("1st Test")

----------------------------------------------------------------------------
(* C3 *)

\* C3: when insert_real_match_data meets an existing row with the same
\* external id, it overwrites exactly current_status and match_status; the
\* row's primary key, team1_id, team2_id, venue_id, created_at and every
\* other column are unchanged, and so is every other row.
C3_UpdateTouchesOnlyStatusAndState ==
    \A e \in LogEntries :
        IsUpdateOfExisting(e) =>
            \E old \in e.before : \E new \in e.after :
                /\ old.cricbuzz_match_id = SentId(e)
                /\ e.after = (e.before \ {old}) \cup {new}
                /\ new.current_status = DictGet(e.arg, "status", PyStr(""))
                /\ new.match_status = DictGet(e.arg, "state", PyStr("Unknown"))
                /\ \A c \in MatchColumns \ {"current_status", "match_status"} :
                       new[c] = old[c]

\* A row whose team and venue keys were set outside the feed was updated, at a
\* later time than it was created.
C3_Witness ==
    \E e \in LogEntries :
        /\ IsUpdateOfExisting(e)
        /\ \E old \in e.before :
              /\ old.cricbuzz_match_id = SentId(e)
              /\ old.team1_id # None /\ old.venue_id # None
              /\ old.current_status # DictGet(e.arg, "status", PyStr(""))
              /\ old.match_description # DictGet(e.arg, "description", PyStr(""))
        /\ \E new \in e.after :
              /\ new.cricbuzz_match_id = SentId(e)
              /\ new.team1_id = PyInt(1)
              /\ new.current_status = DictGet(e.arg, "status", PyStr(""))

----------------------------------------------------------------------------
(* C4 *)

\* A call that carries a null external id while the store is available.
IsNullIdCall(e) ==
    /\ e.op = "insert_real_match_data"
    /\ SentId(e) = None
    /\ e.env = "ok"

\* C4: a record whose external id is null is still written: each such call
\* (the store being available) succeeds and adds one new row with a null
\* external id and leaves the others, so two such calls, even with identical
\* content, leave two distinct rows with a null external id.
C4_NullIdAlwaysInserts ==
    /\ \A e \in LogEntries :
          IsNullIdCall(e) =>
              /\ e.ret
              /\ \E new \in e.after \ e.before :
                    /\ e.after = e.before \cup {new}
                    /\ new.cricbuzz_match_id = None
                    /\ \A r \in e.before : r.match_id # new.match_id
    /\ Cardinality(RowsWithExternalId(matches, None)) =
          Cardinality(RowsWithExternalId(InitialStore, None))
            + Cardinality({i \in DOMAIN log : IsNullIdCall(log[i])})

\* Two calls with the same null-id record have been made and two rows stand.
C4_Witness ==
    /\ \E i \in DOMAIN log : \E j \in DOMAIN log :
          /\ i < j
          /\ IsNullIdCall(log[i]) /\ IsNullIdCall(log[j])
          /\ log[i].arg = log[j].arg
    /\ Cardinality(RowsWithExternalId(matches, None)) = 2

----------------------------------------------------------------------------
(* C5 *)

\* A record the store cannot take: an identifier that is no integer, or a
\* state longer than the column.
IsMalformed(rec) ==
    \/ DictGet(rec, "match_id", None).t \notin {"none", "int"}
    \/ Len(DictGet(rec, "state", PyStr("Unknown")).v) > VarcharShort

\* C5: insert_real_match_data never raises to its caller; it returns true
\* when the insert-or-update completed and false when the store operation
\* failed: no connection, a store error, or a malformed parameter value.
C5_ReturnsSuccessNeverRaises ==
    \A e \in LogEntries :
        e.op = "insert_real_match_data" =>
            /\ ~e.raised
            /\ e.ret <=> (e.env = "ok" /\ ~IsMalformed(e.arg))
            /\ ~e.ret => e.after = e.before
            /\ e.ret => \E r \in e.after :
                            /\ r.cricbuzz_match_id = SentId(e)
                            /\ r.current_status = DictGet(e.arg, "status", PyStr(""))

\* Every kind of failure and a success have been seen in one run.
C5_Witness ==
    /\ \E e \in LogEntries : e.env = "no_connection" /\ ~e.ret
    /\ \E e \in LogEntries : e.env = "ok" /\ IsMalformed(e.arg) /\ ~e.ret
    /\ \E e \in LogEntries : e.env = "ok" /\ e.ret

----------------------------------------------------------------------------
(* Helpers of the feed claims: the leaves of a payload, read off its      *)
(* structure.  All are total: a value of the wrong type holds no leaves.  *)

IsDict(x) == x.t = "dict"
IsList(x) == x.t = "list"
HasKey(x, k) == IsDict(x) /\ k \in DOMAIN x.v

GroupsOf(d) ==
    IF HasKey(d, "typeMatches") /\ IsList(d.v.typeMatches)
    THEN d.v.typeMatches.v ELSE <<>>

SeriesOf(group) ==
    IF HasKey(group, "seriesMatches") /\ IsList(group.v.seriesMatches)
    THEN group.v.seriesMatches.v ELSE <<>>

WrapperOf(series) ==
    IF HasKey(series, "seriesAdWrapper") THEN series.v.seriesAdWrapper ELSE EmptyDict

LeavesOf(series) ==
    LET w == WrapperOf(series) IN
    IF HasKey(w, "matches") /\ IsList(w.v.matches) THEN w.v.matches.v ELSE <<>>

\* The places <<group, series, match>> of the leaf match entries.
LeafPaths(d) ==
    UNION {UNION {{<<g, s, m>> : m \in DOMAIN LeavesOf(SeriesOf(GroupsOf(d)[g])[s])} :
                     s \in DOMAIN SeriesOf(GroupsOf(d)[g])} :
              g \in DOMAIN GroupsOf(d)}

SeriesAtPath(d, p) == SeriesOf(GroupsOf(d)[p[1]])[p[2]]
LeafAtPath(d, p) == LeavesOf(SeriesAtPath(d, p))[p[3]]

\* Depth-first order: groups, then series within a group, then matches.
PathBefore(p, q) ==
    \/ p[1] < q[1]
    \/ p[1] = q[1] /\ p[2] < q[2]
    \/ p[1] = q[1] /\ p[2] = q[2] /\ p[3] < q[3]

\* The position of leaf p among the leaves paths in depth-first order, from 1.
Rank(paths, p) == 1 + Cardinality({q \in paths : PathBefore(q, p)})

MatchInfoOf(leaf) ==
    IF HasKey(leaf, "matchInfo") THEN leaf.v.matchInfo ELSE EmptyDict

\* The identifier a leaf carries upstream, None when it carries none.
UpstreamId(leaf) ==
    IF HasKey(MatchInfoOf(leaf), "matchId") THEN MatchInfoOf(leaf).v.matchId ELSE None

UpstreamSeriesName(series) ==
    IF HasKey(WrapperOf(series), "seriesName")
    THEN WrapperOf(series).v.seriesName ELSE PyStr("")

\* Every value the traversal reads has the type the traversal expects.
WellTypedLeaf(leaf) ==
    /\ IsDict(leaf)
    /\ HasKey(leaf, "matchInfo") =>
          /\ IsDict(leaf.v.matchInfo)
          /\ \A k \in {"team1", "team2", "venueInfo"} :
                HasKey(leaf.v.matchInfo, k) => IsDict(leaf.v.matchInfo.v[k])

WellTypedSeries(series) ==
    /\ IsDict(series)
    /\ HasKey(series, "seriesAdWrapper") =>
          LET w == series.v.seriesAdWrapper IN
          /\ IsDict(w)
          /\ HasKey(w, "matches") =>
                /\ IsList(w.v.matches)
                /\ \A m \in DOMAIN w.v.matches.v : WellTypedLeaf(w.v.matches.v[m])

WellTypedGroup(group) ==
    /\ IsDict(group)
    /\ HasKey(group, "seriesMatches") =>
          /\ IsList(group.v.seriesMatches)
          /\ \A i \in DOMAIN group.v.seriesMatches.v :
                WellTypedSeries(group.v.seriesMatches.v[i])

WellTyped(d) ==
    /\ IsDict(d)
    /\ HasKey(d, "typeMatches") =>
          /\ IsList(d.v.typeMatches)
          /\ \A g \in DOMAIN d.v.typeMatches.v : WellTypedGroup(d.v.typeMatches.v[g])

\* The number of records a feed function may return for n leaves.
Returned(fn, n) == IF fn = "get_recent_matches" /\ n > 20 THEN 20 ELSE n

\* Record i of the output is the record of leaf p.
IsRecordOfLeaf(rec, d, p) ==
    /\ rec.match_id = UpstreamId(LeafAtPath(d, p))
    /\ rec.series = UpstreamSeriesName(SeriesAtPath(d, p))

----------------------------------------------------------------------------
(* C6 *)

----------------------------------------------------------------------------
(* C7 *)

\* A well-typed payload one branch of which lacks a key: a group without
\* seriesMatches, a series without seriesAdWrapper or matches, a leaf without
\* matchInfo.
HasMissingBranch(d) ==
    /\ WellTyped(d)
    /\ \/ \E g \in DOMAIN GroupsOf(d) : ~HasKey(GroupsOf(d)[g], "seriesMatches")
       \/ \E g \in DOMAIN GroupsOf(d) : \E s \in DOMAIN SeriesOf(GroupsOf(d)[g]) :
             LET series == SeriesOf(GroupsOf(d)[g])[s] IN
             \/ ~HasKey(series, "seriesAdWrapper")
             \/ ~HasKey(WrapperOf(series), "matches")
       \/ \E p \in LeafPaths(d) : ~HasKey(LeafAtPath(d, p), "matchInfo")

\* The record of a leaf without matchInfo: every field defaulted.
IsDefaultRecord(rec) ==
    /\ rec.match_id = None
    /\ \A k \in {"description", "format", "status", "state", "team1", "team2",
                 "venue", "city", "start_date"} : rec[k] = PyStr("")

\* C7 as claimed: when one branch of the payload lacks a key at one nesting
\* level, the normalizer skips or defaults only that branch and still returns
\* a record for every leaf match reachable through the other branches.
C7_MissingBranchLosesNothingElse ==
    (feed.fn # "none" /\ HasMissingBranch(data)) =>
        LET paths == LeafPaths(data) IN
        /\ ~feed.raised /\ ~feed.error
        /\ Len(feed.ret) = Cardinality(paths)
        /\ \A p \in paths :
              LET rec == feed.ret[Rank(paths, p)] IN
              /\ IsRecordOfLeaf(rec, data, p)
              /\ ~HasKey(LeafAtPath(data, p), "matchInfo") => IsDefaultRecord(rec)

\* C7 as amended: ... and still returns a record for every leaf match
\* reachable through the other branches, up to the first 20 leaves in
\* traversal order for get_recent_matches.
C7_MissingBranchLosesOnlyThatBranch ==
    (feed.fn # "none" /\ HasMissingBranch(data)) =>
        LET paths == LeafPaths(data)
            n == Returned(feed.fn, Cardinality(paths))
        IN
        /\ ~feed.raised /\ ~feed.error
        /\ Len(feed.ret) = n
        /\ \A p \in paths :
              Rank(paths, p) <= n =>
                 LET rec == feed.ret[Rank(paths, p)] IN
                 /\ IsRecordOfLeaf(rec, data, p)
                 /\ ~HasKey(LeafAtPath(data, p), "matchInfo") => IsDefaultRecord(rec)

\* The first series of a payload has no wrapper, and the records of the
\* series after it were returned.
C7_Witness ==
    /\ feed.fn = "get_live_matches"
    /\ HasMissingBranch(data)
    /\ Len(GroupsOf(data)) >= 2
    /\ Len(SeriesOf(GroupsOf(data)[1])) >= 2
    /\ ~HasKey(SeriesOf(GroupsOf(data)[1])[1], "seriesAdWrapper")
    /\ Len(feed.ret) = Cardinality(LeafPaths(data))
    /\ Len(feed.ret) >= 4
    /\ feed.ret[1].match_id = PyInt(LeafId(1, 2, 1))

----------------------------------------------------------------------------
(* C8 *)

\* C8: when the payload's typeMatches is absent or an empty sequence, the
\* normalizer returns an empty sequence and reports no error.
C8_NoTypeMatchesGivesEmpty ==
    (/\ feed.fn # "none"
     /\ IsDict(data)
     /\ (~HasKey(data, "typeMatches") \/ data.v.typeMatches = PyList(<<>>))) =>
        /\ feed.ret = <<>>
        /\ ~feed.error
        /\ ~feed.raised

\* A mapping without typeMatches was traversed.
C8_Witness ==
    /\ feed.fn = "get_recent_matches"
    /\ data = PyDict([data |-> PyList(<<>>), status |-> PyStr("fallback")])
    /\ feed.ret = <<>>

----------------------------------------------------------------------------
(* C9 *)

\* C9 as claimed: when the payload is not a mapping at all, normalization
\* reports an error to its caller; it does not swallow the mismatch and
\* return an empty sequence.
C9_NonMappingRaises ==
    (feed.fn # "none" /\ ~IsDict(data)) => feed.raised

\* Whether the membership test or the subscript on a non-mapping raises.
NonMappingTrips(d) ==
    \/ d.t \in {"none", "int"}
    \/ d.t = "list" /\ \E i \in DOMAIN d.v : d.v[i] = PyStr("typeMatches")
    \/ d.t = "str" /\ d.v = "typeMatches unavailable"

\* C9 as amended: when the payload is not a mapping at all, normalization
\* never raises to its caller and returns an empty sequence; it shows an
\* error message when the payload is null or a number, or a list or string
\* that contains 'typeMatches', and shows none otherwise.
C9_NonMappingSwallowed ==
    (feed.fn # "none" /\ ~IsDict(data)) =>
        /\ ~feed.raised
        /\ feed.ret = <<>>
        /\ feed.error <=> NonMappingTrips(data)

\* A number came back as the payload.
C9_Witness ==
    /\ feed.fn = "get_live_matches"
    /\ data = PyInt(503)
    /\ feed.ret = <<>>
    /\ feed.error

----------------------------------------------------------------------------
(* C10 *)

\* The keys of matchInfo each record field is read from.
UpstreamKey ==
    [description |-> "matchDesc", format |-> "matchFormat", status |-> "status",
     state |-> "state", start_date |-> "startDate"]

\* The sub-object and key of matchInfo each nested field is read from.
UpstreamNested ==
    [team1 |-> <<"team1", "teamName">>, team2 |-> <<"team2", "teamName">>,
     venue |-> <<"venueInfo", "ground">>, city |-> <<"venueInfo", "city">>]

\* Every field of rec that is missing upstream in leaf is the empty string.
MissingFieldsAreEmpty(rec, leaf) ==
    LET mi == MatchInfoOf(leaf) IN
    /\ \A f \in DOMAIN UpstreamKey :
          ~HasKey(mi, UpstreamKey[f]) => rec[f] = PyStr("")
    /\ \A f \in DOMAIN UpstreamNested :
          (\/ ~HasKey(mi, UpstreamNested[f][1])
           \/ ~HasKey(mi.v[UpstreamNested[f][1]], UpstreamNested[f][2]))
              => rec[f] = PyStr("")

\* A leaf entry that carries no identifier: it has no matchInfo, or its
\* matchInfo has no matchId or a null one.
HasNoIdentifier(leaf) ==
    /\ IsDict(leaf)
    /\ IsDict(MatchInfoOf(leaf))
    /\ UpstreamId(leaf) = None

----------------------------------------------------------------------------
(* C11 *)

\* What the record of a leaf holds in field f when the field is read from
\* the payload with the empty string (None for the identifier) as default.
UpstreamField(leaf, series, f) ==
    LET mi == MatchInfoOf(leaf) IN
    CASE f = "match_id" -> UpstreamId(leaf)
      [] f = "series" -> UpstreamSeriesName(series)
      [] f \in DOMAIN UpstreamKey ->
            IF HasKey(mi, UpstreamKey[f]) THEN mi.v[UpstreamKey[f]] ELSE PyStr("")
      [] f \in DOMAIN UpstreamNested ->
            IF /\ HasKey(mi, UpstreamNested[f][1])
               /\ HasKey(mi.v[UpstreamNested[f][1]], UpstreamNested[f][2])
            THEN mi.v[UpstreamNested[f][1]].v[UpstreamNested[f][2]]
            ELSE PyStr("")

RecordFields ==
    {"match_id", "series"} \cup DOMAIN UpstreamKey \cup DOMAIN UpstreamNested

\* One series 'Test Series' with two matches, the second without venueInfo.
TwoMatchesSecondWithoutVenue ==
    PyDict([typeMatches |-> PyList(<<
        PyDict([matchType |-> PyStr("International"),
                seriesMatches |-> PyList(<<
                    PyDict([seriesAdWrapper |-> PyDict(
                        [seriesName |-> PyStr("Test Series"),
                         matches |-> PyList(<<
                            PyDict([matchInfo |-> PyDict(MatchInfoAt(1, 1, 1))]),
                            PyDict([matchInfo |-> PyDict(
                                Without(MatchInfoAt(1, 1, 2), "venueInfo"))])>>)])])>>)])>>)])

----------------------------------------------------------------------------
(* C12 *)

\* The rows a logged call added to the table.
RowsAddedBy(e) == e.after \ e.before

\* C12: when get_recent_matches produces a record with start date d and
\* insert_real_match_data inserts it, the new row's match date is d; the
\* default date is stored only when the record carries no start date.
C12_StartDateIsStored ==
    \A e \in LogEntries :
        (/\ e.op = "insert_real_match_data"
         /\ e.ret
         /\ "start_date" \in DOMAIN e.arg
         /\ e.arg.start_date # PyStr("")) =>
            \A r \in RowsAddedBy(e) : r.match_date = e.arg.start_date

----------------------------------------------------------------------------
(* C13 *)

\* C13: make_request never raises to its caller and always returns a
\* mapping: on success it returns the decoded response body, and on any
\* non-2xx status, network error or timeout it returns the fallback payload
\* of get_fallback_data, a timeout like any other failure.  (data is what
\* make_request returned to the feed function, http what requests.get did.)
C13_MakeRequestReturnsMapping ==
    feed.fn # "none" =>
        /\ IsDict(data)
        /\ (http.kind = "http" /\ http.status = 200 /\ http.body.kind = "grid") =>
              data = GridPayload(http.body.G, http.body.S, http.body.M, http.body.d)
        /\ (http.kind = "http" /\ http.status = 200 /\ http.body.kind = "odd") =>
              data = OddPayloads[http.body.i]
        /\ (http.kind # "http" \/ http.status \notin 200..299) =>
              data = FallbackMatches

----------------------------------------------------------------------------
(* C14 *)

\* The store calls the last handler made, in call order.
Batch == IF report.op = "none" THEN <<>> ELSE SubSeq(log, report.first, Len(log))

\* C14: 'Store All Recent Matches' (and populate_database_from_api) calls
\* insert_real_match_data exactly once per record, in the order the
\* normalizer produced the records, with no retry; a failed write does not
\* stop the remaining records, and the reported count is the number of calls
\* that returned true, between 0 and N.
C14_OneCallPerRecordInOrder ==
    report.op \in {"store_all_recent_matches", "populate_database_from_api"} =>
        /\ Len(Batch) = Len(feed.ret)
        /\ \A i \in DOMAIN Batch :
              /\ Batch[i].op = "insert_real_match_data"
              /\ Batch[i].arg = feed.ret[i]
        /\ report.count = Cardinality({i \in DOMAIN Batch : Batch[i].ret})
        /\ report.count \in 0..Len(feed.ret)
        /\ report.total = Len(feed.ret)

\* Three records were stored in one batch; the write of the first failed, the
\* two after it were attempted and succeeded, and 2 was reported.
C14_Witness ==
    /\ report.op = "store_all_recent_matches"
    /\ Len(Batch) = 3
    /\ ~Batch[1].ret
    /\ Batch[2].ret /\ Batch[3].ret
    /\ report.count = 2
    /\ Batch[1].arg # Batch[2].arg

----------------------------------------------------------------------------
(* C15 *)

\* The primary keys of the rows the store held before the first call.
InitialMatchIds == {r.match_id : r \in InitialStore}

\* C15: after any sequence of insert_real_match_data calls, every row those
\* calls inserted has null team1_id, team2_id and venue_id, whatever team and
\* venue names the record held.
C15_FeedRowsHaveNoForeignKeys ==
    \A r \in matches :
        r.match_id \notin InitialMatchIds =>
            /\ r.team1_id = None
            /\ r.team2_id = None
            /\ r.venue_id = None

\* A record naming both teams and the venue was inserted and later updated by
\* a second call; its row is there beside a row whose keys were set outside
\* the feed.
C15_Witness ==
    /\ Len(SuccessfulUpserts(PyInt(12346))) >= 2
    /\ SuccessfulUpserts(PyInt(12346))[1].arg.team1 = PyStr("India")
    /\ SuccessfulUpserts(PyInt(12346))[1].arg.venue = PyStr("Wankhede Stadium")
    /\ \E r \in matches : r.cricbuzz_match_id = PyInt(12346) /\ r.team1_id = None
    /\ \E r \in matches : r.match_id \in InitialMatchIds /\ r.team1_id # None

----------------------------------------------------------------------------
(* Claims about the CRUD pages and the bootstrap *)

CrudEntries(op) == {i \in 1..Len(log) : log[i].op = op}

AllOk(env) == \A k \in DOMAIN env : env[k] = "ok"

\* A submission of the add-match form that passes both of its checks.
ValidMatchSubmission(e) ==
    /\ e.op = "show_add_match_form"
    /\ e.arg.form.match_description # ""
    /\ e.arg.form.match_format # ""
    /\ e.arg.form.team1 # "" /\ e.arg.form.team2 # "" /\ e.arg.form.venue # ""
    /\ e.arg.form.team1 # e.arg.form.team2
    /\ AllOk(e.env)

\* C16: a valid submission of the add-match form, the store being reachable,
\* adds exactly one matches row; the row carries the ids of the selected
\* teams and venue and a NULL cricbuzz_match_id.
C16_AddMatchStoresRowWithForeignKeys ==
    \A i \in CrudEntries("show_add_match_form") :
        ValidMatchSubmission(log[i]) =>
            \E r \in log[i].after.matches \ log[i].before.matches :
                /\ log[i].after.matches = log[i].before.matches \cup {r}
                /\ r.team1_id = log[i].arg.team1_id
                /\ r.team2_id = log[i].arg.team2_id
                /\ r.venue_id = log[i].arg.venue_id
                /\ r.cricbuzz_match_id = None

Rows(db) == [t \in Tables |-> db[t]]

\* A bootstrap that ran to the end on a store without rows, followed at once
\* by the next bootstrap.
SecondBootstrap(i) ==
    /\ i \in 2..Len(log)
    /\ log[i].op = "init_database"
    /\ log[i-1].op = "init_database"
    /\ AllOk(log[i-1].env)
    /\ \A t \in Tables : log[i-1].before[t] = {}

\* C17: the first bootstrap of an empty store leaves 8 teams, 8 venues, 10
\* players and no match; a second bootstrap, whatever happens to its
\* connections, leaves every table with exactly those rows.
C17_BootstrapIdempotent ==
    \A i \in 1..Len(log) :
        SecondBootstrap(i) =>
            /\ Cardinality(log[i].before.teams) = Len(TeamsData)
            /\ Cardinality(log[i].before.venues) = Len(VenuesData)
            /\ Cardinality(log[i].before.players) = Len(PlayersData)
            /\ log[i].before.matches = {}
            /\ Rows(log[i].before) = Rows(log[i-1].after)
            /\ Rows(log[i].after) = Rows(log[i].before)

C17_Witness ==
    /\ Len(log) = 2
    /\ SecondBootstrap(2)
    /\ AllOk(log[2].env)
    /\ log[2].ret = "early_return"
    /\ Cardinality(teams) = 8 /\ Cardinality(venues) = 8 /\ Cardinality(players) = 10

\* C18: whenever an operation has returned, no connection it opened is
\* still open, whichever way the operation ended.
C18_ConnectionsReleased ==
    connections = 0

\* a bootstrap that returned early from seeding, then a delete the store
\* rejected
C18_Witness ==
    /\ Len(log) = 2
    /\ log[1].op = "init_database" /\ log[1].ret = "early_return"
    /\ log[2].op = "_delete_entity" /\ log[2].ret = "Delete failed"
    /\ log[2].env = <<"ok", "ok", "store_error">>
    /\ connections = 0

\* C20: a bootstrap, at whatever point of a run of CRUD operations the
\* session restarts, adds no row to a teams table that has rows, and none to
\* a venues table that has rows.
C20_SeedsOnlyEmptyTables ==
    \A i \in CrudEntries("init_database") :
        /\ log[i].before.teams # {} => log[i].after.teams = log[i].before.teams
        /\ log[i].before.venues # {} => log[i].after.venues = log[i].before.venues

\* The rows of a store that a foreign key value of a matches row names
Referenced(db, m, c) ==
    {r \in db[ForeignKeys.matches[c]] : r[PrimaryKey[ForeignKeys.matches[c]]] = m[c]}

\* A confirmed delete of a teams or venues row that a matches row names
DeleteOfReferenced(e) ==
    /\ e.op = "_delete_entity"
    /\ e.updates # <<>>
    /\ e.arg.table \in {"teams", "venues"}
    /\ \E m \in e.before.matches : \E c \in {"team1_id", "team2_id", "venue_id"} :
           ForeignKeys.matches[c] = e.arg.table /\ m[c] = PyInt(e.arg.id)

\* C21: every non-null team1_id, team2_id and venue_id of a matches row
\* names an existing teams or venues row, and a delete of a team or venue
\* that a match still names fails and leaves the store as it was.
C21_ForeignKeysResolve ==
    /\ \A m \in matches : \A c \in {"team1_id", "team2_id", "venue_id"} :
           m[c] # None => Referenced(CurrentDatabase, m, c) # {}
    /\ \A i \in CrudEntries("_delete_entity") :
           DeleteOfReferenced(log[i]) =>
               log[i].ret = "Delete failed" /\ log[i].after = log[i].before

C21_Witness ==
    /\ Len(log) = 2
    /\ log[1].op = "edit_match" /\ log[1].updates # <<>>
    /\ DeleteOfReferenced(log[2]) /\ AllOk(log[2].env)
    /\ \E m \in matches : m.team1_id = PyInt(log[2].arg.id)

----------------------------------------------------------------------------
(* The frame of the upsert *)

----------------------------------------------------------------------------
(* The fallback *)

\* The feed could not be reached: no response, or a response that is not 200.
Unreachable == http.kind \in {"Timeout", "ConnectionError"}
               \/ (http.kind = "http" /\ http.status # StatusOk)

\* C23: when the feed cannot be reached, get_recent_matches and
\* get_live_matches return exactly two records, 12345 then 12346, both of
\* series 'India vs Australia Test Series 2024'; a fetch of an endpoint
\* without 'recent' and 'live' in its path yields the mapping with an empty
\* data list and status 'fallback'.
C23_FallbackRecords ==
    Unreachable =>
        /\ feed.fn \in {"get_recent_matches", "get_live_matches"} =>
              /\ ~feed.raised /\ ~feed.error
              /\ Len(feed.ret) = 2
              /\ feed.ret[1].match_id = PyInt(12345)
              /\ feed.ret[2].match_id = PyInt(12346)
              /\ \A i \in 1..2 :
                     feed.ret[i].series = PyStr("India vs Australia Test Series 2024")
        /\ feed.fn = "get_team_rankings" =>
              data = PyDict([data |-> PyList(<<>>), status |-> PyStr("fallback")])

C23_Witness ==
    /\ http.kind = "Timeout"
    /\ feed.fn = "get_recent_matches"
    /\ Len(feed.ret) = 2

----------------------------------------------------------------------------
(* The limit of the recent feed *)

\* C24: get_recent_matches returns at most 20 records, the records of the
\* first 20 leaves in traversal order when the payload has more, each with a
\* result equal to its status; get_live_matches returns a record for every
\* leaf.
C24_RecentLimitedLiveComplete ==
    LET paths == IF WellTyped(data) THEN LeafPaths(data) ELSE {}
        n == Cardinality(paths)
    IN
    /\ feed.fn = "get_recent_matches" =>
          /\ Len(feed.ret) <= 20
          /\ \A i \in 1..Len(feed.ret) :
                 /\ "result" \in DOMAIN feed.ret[i]
                 /\ feed.ret[i].result = feed.ret[i].status
          /\ WellTyped(data) =>
                 /\ Len(feed.ret) = IF n > 20 THEN 20 ELSE n
                 /\ \A p \in paths :
                        Rank(paths, p) <= 20 =>
                            IsRecordOfLeaf(feed.ret[Rank(paths, p)], data, p)
    /\ (feed.fn = "get_live_matches" /\ WellTyped(data)) =>
          /\ Len(feed.ret) = n
          /\ \A i \in 1..Len(feed.ret) : "result" \notin DOMAIN feed.ret[i]

C24_Witness ==
    /\ feed.fn = "get_recent_matches"
    /\ WellTyped(data)
    /\ Cardinality(LeafPaths(data)) > 20
    /\ Len(feed.ret) = 20
    /\ feed.ret[20].result = feed.ret[20].status
    /\ feed.ret[20].status # PyStr("")

----------------------------------------------------------------------------
(* The home page *)

\* C25: 'Fetch Latest Matches' attempts no upsert unless the connection
\* test succeeded; after a successful test it upserts the first 10 records
\* get_recent_matches returned, at most, in their order; after a failed test
\* the store is as it was.
C25_FetchLatestGuardedAndLimited ==
    report.op = "fetch_latest_matches" =>
        /\ ~report.api_working =>
              /\ log = <<>>
              /\ matches \in InitialStores
              /\ next_match_id = Cardinality(matches) + 1
        /\ report.api_working =>
              /\ Len(log) = IF Len(feed.ret) > 10 THEN 10 ELSE Len(feed.ret)
              /\ \A i \in 1..Len(log) :
                     /\ log[i].op = "insert_real_match_data"
                     /\ log[i].arg = feed.ret[i]

C25_Witness ==
    /\ report.op = "fetch_latest_matches"
    /\ report.api_working
    /\ Len(feed.ret) > 10
    /\ Len(log) = 10
    /\ report.count = 9

----------------------------------------------------------------------------
(* execute_query and execute_update as the pages see them *)

CrudPages ==
    {"show_add_match_form", "show_add_team_form", "show_add_venue_form",
     "show_add_player_form", "edit_match", "_delete_entity"}

\* What the environment did to the handler's call of execute_update
UpdateEnv(e) ==
    IF e.op \in {"show_add_team_form", "show_add_venue_form", "show_add_player_form"}
    THEN e.env ELSE e.env[Len(e.env)]

\* The messages a page shows when execute_update returned False
FailedMessages ==
    {"Failed to add match", "Failed to add team", "Failed to add venue",
     "Failed to add player", "Update failed", "Delete failed"}

----------------------------------------------------------------------------
(* The delete page *)

RowsWithId(db, table, id) == {r \in db[table] : r[PrimaryKey[table]] = PyInt(id)}

\* C27: _delete_entity sends a DELETE exactly when the box is ticked and the
\* typed text without its surrounding whitespace is the chosen id; otherwise
\* the store is as it was; a DELETE that was sent removes no row but the one
\* with the chosen id.
C27_DeleteNeedsConfirmation ==
    \A i \in CrudEntries("_delete_entity") :
        LET e == log[i]
            ticked == e.arg.confirmation.confirm1
            typed == Strip(e.arg.confirmation.confirm_text)
        IN
        /\ e.updates # <<>> <=> (ticked /\ typed = Str(e.arg.id))
        /\ e.updates = <<>> => e.after = e.before
        /\ e.updates # <<>> =>
              /\ e.updates = <<DeleteStatement(e.arg.table, e.arg.id)>>
              /\ \A t \in Tables \ {e.arg.table} : e.after[t] = e.before[t]
              /\ e.after[e.arg.table] \subseteq e.before[e.arg.table]
              /\ e.before[e.arg.table] \ e.after[e.arg.table]
                     \subseteq RowsWithId(e.before, e.arg.table, e.arg.id)
              /\ e.ret = "Deleted" => RowsWithId(e.after, e.arg.table, e.arg.id) = {}

\* a delete refused for its unticked box, then one confirmed by " 9 "
C27_Witness ==
    /\ Len(log) = 2
    /\ log[1].op = "_delete_entity"
    /\ ~log[1].arg.confirmation.confirm1 /\ log[1].updates = <<>>
    /\ log[2].op = "_delete_entity" /\ log[2].ret = "Deleted"
    /\ log[2].arg.id = 9
    /\ log[2].arg.confirmation.confirm_text = <<" ", "9", " ">>
    /\ Cardinality(log[2].before[log[2].arg.table]) =
           Cardinality(log[2].after[log[2].arg.table]) + 1

----------------------------------------------------------------------------
(* The stored-matches view *)

StoredLimit == 20

MaxStored == 22

ViewColumns == {"cricbuzz_match_id", "match_description", "match_format",
                "series_name", "current_status", "match_date"}

\* The SELECT list: the internal id is not among the columns returned.
Selected(row) == [c \in ViewColumns |-> row[c]]

\* ISO dates, earliest first: the order in which a DATE column compares.
DatesAscending == <<"2024-08-25", "2024-08-28", "2024-08-29">>

DateRank(date) == CHOOSE k \in 1..Len(DatesAscending) : DatesAscending[k] = date.v

\* ORDER BY match_date DESC, match_id DESC
OrderedBefore(r, q) ==
    \/ DateRank(r.match_date) > DateRank(q.match_date)
    \/ /\ r.match_date = q.match_date
       /\ r.match_id.v > q.match_id.v

RECURSIVE OrderBy(_)
OrderBy(rows) ==
    IF rows = {} THEN <<>>
    ELSE LET top == CHOOSE r \in rows : \A q \in rows \ {r} : OrderedBefore(r, q)
         IN <<top>> \o OrderBy(rows \ {top})

WhereExternalId_Any(rows) == rows

\* WHERE cricbuzz_match_id IS NOT NULL
WhereExternalId(rows) == {r \in rows : r.cricbuzz_match_id # None}

get_real_matches_from_db(tbl, env) ==
    IF env = "no_connection"
    THEN [ret |-> <<>>, open |-> LeftOpen(FALSE, "returned")]
    ELSE IF env = "store_error"
    THEN [ret |-> <<>>, open |-> LeftOpen(TRUE, "caught")]
    ELSE LET ordered == Truncate(OrderBy(WhereExternalId(tbl)), StoredLimit)
         IN [ret |-> [k \in 1..Len(ordered) |-> Selected(ordered[k])],
             open |-> LeftOpen(TRUE, "returned")]

\* A stored row: row i of a table whose rows take their dates in turn from
\* the calendar, `step' apart, and of which every `nulls'-th came from a feed
\* record without an id.
StoredRow(i, step, nulls) ==
    [ExistingRow EXCEPT
        !.match_id = PyInt(i),
        !.cricbuzz_match_id = IF nulls > 0 /\ i % nulls = 0
                              THEN None ELSE PyInt(12400 - i),
        !.match_description = PyStr(""),
        !.match_date = PyStr(DatesAscending[((i * step) % 3) + 1])]

StoredSizes == 0..3 \cup {MaxStored - 1, MaxStored}

StoredTables ==
    {{StoredRow(i, step, nulls) : i \in 1..n} :
        n \in StoredSizes, step \in 0..2, nulls \in {0, 1, 3, MaxStored}}

InitView ==
    /\ matches \in StoredTables
    /\ next_match_id = Cardinality(matches) + 1
    /\ now = 1
    /\ log = <<>>
    /\ InitFeedIdle
    /\ InitAppIdle

\* 'View Real Match Data' on the home page, and the table under the live page
ViewStoredMatches ==
    /\ report.op = "none"
    /\ \E env \in StoreEnvs :
         \E o \in {get_real_matches_from_db(matches, env)} :
            /\ report' = [op |-> "get_real_matches_from_db", count |-> Len(o.ret),
                          total |-> Cardinality(matches), first |-> Len(log) + 1,
                          env |-> env, rows |-> o.ret]
            /\ connections' = connections + o.open
    /\ UNCHANGED storeVars
    /\ UNCHANGED feedVars
    /\ UNCHANGED <<teams, venues, players, next_id>>

NextView == ViewStoredMatches

SpecView == InitView /\ [][NextView]_vars

Viewed == report.op = "get_real_matches_from_db"

\* the stored row a returned record was read from
Source(record) ==
    CHOOSE r \in matches : r.cricbuzz_match_id = record.cricbuzz_match_id

Earlier(a, b) ==
    \E j, k \in 1..Len(DatesAscending) :
        /\ j < k /\ DatesAscending[j] = a.v /\ DatesAscending[k] = b.v

\* C28: get_real_matches_from_db returns at most 20 records, each read from a
\* stored row with an external id, later match dates first and, within a
\* date, higher internal ids first; a row without an external id is never
\* among them, and a row with one is left out only when 20 rows come before
\* it or the query failed.
C28_ViewFilteredOrderedLimited ==
    Viewed =>
        /\ Len(report.rows) <= 20
        /\ \A k \in 1..Len(report.rows) :
               /\ report.rows[k].cricbuzz_match_id # None
               /\ \E r \in matches : Selected(r) = report.rows[k]
        /\ \A j, k \in 1..Len(report.rows) :
               j < k =>
                   LET a == Source(report.rows[j])
                       b == Source(report.rows[k])
                   IN /\ a # b
                      /\ ~Earlier(a.match_date, b.match_date)
                      /\ a.match_date = b.match_date => a.match_id.v > b.match_id.v
        /\ report.env = "ok" =>
               \A r \in matches :
                   (/\ r.cricbuzz_match_id # None
                    /\ \A k \in 1..Len(report.rows) : Source(report.rows[k]) # r)
                       => /\ Len(report.rows) = 20
                          /\ \A k \in 1..Len(report.rows) :
                                 LET a == Source(report.rows[k])
                                 IN \/ Earlier(r.match_date, a.match_date)
                                    \/ /\ r.match_date = a.match_date
                                       /\ r.match_id.v < a.match_id.v

\* 22 stored rows on three dates, the last inserted without an external id:
\* 20 of the other 21 are shown
C28_Witness ==
    /\ Viewed
    /\ report.env = "ok"
    /\ Cardinality(matches) = 22
    /\ \E r \in matches : r.match_id = PyInt(22) /\ r.cricbuzz_match_id = None
    /\ Cardinality({r.match_date : r \in matches}) = 3
    /\ Len(report.rows) = 20

----------------------------------------------------------------------------
(* The match forms *)

MatchFormEntries == CrudEntries("show_add_match_form") \cup CrudEntries("edit_match")

RequiredEmpty(form) ==
    \/ form.match_description = "" \/ form.match_format = ""
    \/ form.team1 = "" \/ form.team2 = "" \/ form.venue = ""

\* C29: neither match form writes a match whose two teams are the same: a
\* submission with team 1 equal to team 2, or an add with a required field
\* left empty, sends no statement and leaves the store as it was, and every
\* statement that is sent names two different teams.
C29_MatchFormsRefuseSameTeams ==
    \A i \in MatchFormEntries :
        LET e == log[i]
            refused == \/ e.arg.form.team1 = e.arg.form.team2
                       \/ /\ e.op = "show_add_match_form"
                          /\ RequiredEmpty(e.arg.form)
        IN
        /\ refused => e.updates = <<>> /\ e.after = e.before
        /\ \A k \in 1..Len(e.updates) :
               \A j \in 1..Len(e.updates[k].rows) :
                   e.updates[k].rows[j].team1_id # e.updates[k].rows[j].team2_id
        /\ \A r \in e.after.matches \ e.before.matches :
               r.team1_id = None \/ r.team1_id # r.team2_id

\* an add of India against India is refused, then an edit of the stored match
\* to India against India is refused too, both with the teams table read
C29_Witness ==
    /\ Len(log) = 2
    /\ log[1].op = "show_add_match_form"
    /\ log[1].arg.form.team1 = "India" /\ log[1].arg.form.team2 = "India"
    /\ ~RequiredEmpty(log[1].arg.form)
    /\ log[1].ret = "Team 1 and Team 2 must be different"
    /\ log[2].op = "edit_match"
    /\ log[2].arg.form.team1 = "India" /\ log[2].arg.form.team2 = "India"
    /\ log[2].reads[3] > 0
    /\ log[2].ret = "Team 1 and Team 2 must be different"

----------------------------------------------------------------------------
(* CSV import *)

MaxCsvRows == 2

ImportTypes == {"Players", "Teams", "Venues"}

required_columns ==
    [Players |-> {"name", "country", "playing_role"},
     Teams |-> {"team_name", "country"},
     Venues |-> {"venue_name", "city", "country"}]

\* The lines of an uploaded file, as text.
PlayerLines ==
    {[name |-> "Steve Tikolo", country |-> "Kenya", playing_role |-> "Batsman",
      total_runs |-> t] : t \in {"100", "", "abc"}}

TeamLines == {[team_name |-> "Kenya", country |-> "Kenya"]}

VenueLines ==
    {[venue_name |-> "Nairobi Gymkhana", city |-> "Nairobi", country |-> "Kenya"]}

Restrict(line, columns) == [c \in columns |-> line[c]]

CsvFile(columns, lines) ==
    [columns |-> columns,
     lines |-> [k \in 1..Len(lines) |-> Restrict(lines[k], columns)]]

UploadedFiles ==
    UNION {{CsvFile({"name", "country", "playing_role", "total_runs"}, l)
                : l \in [1..n -> PlayerLines]}
           \cup {CsvFile({"name", "country", "playing_role"}, l)
                : l \in [1..n -> {q \in PlayerLines : q.total_runs = "100"}]}
           \cup {CsvFile({"name", "country"}, l)
                : l \in [1..n -> {q \in PlayerLines : q.total_runs = "100"}]}
           \cup {CsvFile({"team_name", "country"}, l) : l \in [1..n -> TeamLines]}
           \cup {CsvFile({"venue_name", "city", "country"}, l)
                : l \in [1..n -> VenueLines]}
           : n \in 0..MaxCsvRows}

\* The decimal literals that occur in the files, with their values.
IntLiterals == ("100" :> 100)

NaN == [t |-> "nan", v |-> 0]

\* pd.read_csv: an empty cell is NaN; a column whose other cells are all
\* numbers is numeric (floating point once a cell is empty), any other column
\* keeps its text.
ReadCell(file, c, text) ==
    LET column == {file.lines[k][c] : k \in 1..Len(file.lines)}
    IN IF text = "" THEN NaN
       ELSE IF column \subseteq (DOMAIN IntLiterals) \cup {""}
       THEN IF "" \in column THEN PyDec(10 * IntLiterals[text])
            ELSE PyInt(IntLiterals[text])
       ELSE PyStr(text)

ReadCsv(file) ==
    [k \in 1..Len(file.lines) |->
        [c \in file.columns |-> ReadCell(file, c, file.lines[k][c])]]

missing_columns(import_type, file) == required_columns[import_type] \ file.columns

\* row.get(column, default)
RowGet(row, c, default) == IF c \in DOMAIN row THEN row[c] ELSE default

notna(v) == v # NaN

\* int(v)
ToInt(v) ==
    IF v.t = "int" THEN Returns(v)
    ELSE IF v.t = "decimal" THEN Returns(PyInt(v.v \div 10))
    ELSE IF v.t = "str" /\ v.v \in DOMAIN IntLiterals
    THEN Returns(PyInt(IntLiterals[v.v]))
    ELSE Raises("ValueError")

\* float(v)
ToFloat(v) ==
    IF v.t = "int" THEN Returns(PyDec(10 * v.v))
    ELSE IF v.t = "decimal" THEN Returns(v)
    ELSE IF v.t = "str" /\ v.v \in DOMAIN IntLiterals
    THEN Returns(PyDec(10 * IntLiterals[v.v]))
    ELSE Raises("ValueError")

TextFields == {"name", "country", "playing_role", "batting_style", "bowling_style"}

IntFields == {"total_runs", "total_wickets", "centuries", "fifties", "matches_played"}

FloatFields == {"batting_average", "bowling_average", "strike_rate", "economy_rate"}

\* The dictionary built from one row, or the exception of its first
\* conversion that fails.
player_data(row) ==
    LET field == [c \in TextFields \cup IntFields \cup FloatFields |->
                    IF c \in TextFields THEN Returns(RowGet(row, c, PyStr("")))
                    ELSE IF ~notna(RowGet(row, c, PyInt(0)))
                    THEN Returns(IF c \in IntFields THEN PyInt(0) ELSE PyDec(0))
                    ELSE IF c \in IntFields THEN ToInt(RowGet(row, c, PyInt(0)))
                    ELSE ToFloat(RowGet(row, c, PyInt(0)))]
    IN IF \E c \in DOMAIN field : field[c].exc # "none"
       THEN Raises("ValueError")
       ELSE Returns([c \in DOMAIN field |-> field[c].val])

AddPlayerParams(player) ==
    [c \in TextFields \cup IntFields \cup FloatFields |->
        IF c \in DOMAIN player THEN player[c]
        ELSE IF c \in TextFields THEN PyStr("")
        ELSE IF c \in IntFields THEN PyInt(0)
        ELSE PyDec(0)]

add_player(db, player, ts, env) ==
    execute_update(db, InsertStatement("players", <<AddPlayerParams(player)>>), ts, env)

Counted_Always(success) == TRUE

\* if success: import_count += 1
Counted(success) == success

ImportState(db, open, import_count, calls, warnings, ts) ==
    [db |-> db, open |-> open, import_count |-> import_count, calls |-> calls,
     warnings |-> warnings, ts |-> ts]

\* for idx, row in df.iterrows(), from row k on
RECURSIVE ImportLoop(_, _, _, _, _)
ImportLoop(import_type, df, envs, k, st) ==
    IF k > Len(df) THEN st
    ELSE IF import_type # "Players"
    THEN ImportLoop(import_type, df, envs, k + 1, st)
    ELSE LET d == player_data(df[k])
             r == add_player(st.db, d.val, st.ts, envs[k])
         IN IF d.exc # "none"
            THEN ImportLoop(import_type, df, envs, k + 1,
                            [st EXCEPT !.warnings = Append(@, k)])
            ELSE ImportLoop(import_type, df, envs, k + 1,
                    ImportState(r.db, st.open + r.open,
                        st.import_count + (IF Counted(r.ret) THEN 1 ELSE 0),
                        Append(st.calls, [row |-> k,
                                          params |-> AddPlayerParams(d.val),
                                          ret |-> r.ret]),
                        st.warnings, st.ts + 1))

show_import_operations(db, import_type, file, ts, envs) ==
    IF missing_columns(import_type, file) # {}
    THEN [valid |-> FALSE, st |-> ImportState(db, 0, 0, <<>>, <<>>, ts)]
    ELSE [valid |-> TRUE,
          st |-> ImportLoop(import_type, ReadCsv(file), envs, 1,
                            ImportState(db, 0, 0, <<>>, <<>>, ts))]

\* a file is uploaded and, when its columns are accepted, 'Import Data' pressed
ImportData ==
    /\ report.op = "none"
    /\ \E import_type \in ImportTypes, file \in UploadedFiles :
         \E envs \in [1..Len(file.lines) -> StoreEnvs] :
            \E r \in {show_import_operations(CurrentDatabase, import_type, file,
                                             now, envs)} :
               /\ teams' = r.st.db.teams
               /\ venues' = r.st.db.venues
               /\ players' = r.st.db.players
               /\ matches' = r.st.db.matches
               /\ next_id' = [teams |-> r.st.db.next.teams,
                              venues |-> r.st.db.next.venues,
                              players |-> r.st.db.next.players]
               /\ next_match_id' = r.st.db.next.matches
               /\ connections' = connections + r.st.open
               /\ now' = r.st.ts
               /\ report' = [op |-> "show_import_operations",
                             count |-> r.st.import_count,
                             total |-> Len(file.lines), first |-> Len(log) + 1,
                             import_type |-> import_type, file |-> file,
                             valid |-> r.valid, env |-> envs,
                             calls |-> r.st.calls, warnings |-> r.st.warnings,
                             before |-> CurrentDatabase, after |-> r.st.db]
    /\ UNCHANGED log
    /\ UNCHANGED feedVars

NextImport == ImportData

SpecImport == InitCrud /\ [][NextImport]_vars

Imported == report.op = "show_import_operations" /\ report.valid

TrueCalls == {k \in 1..Len(report.calls) : report.calls[k].ret}

\* what the import leaves in the store: the rows of the calls that returned
\* true in table players, and nothing else
ImportFrame ==
    /\ \A t \in Tables \ {"players"} : report.after[t] = report.before[t]
    /\ report.before.players \subseteq report.after.players
    /\ Cardinality(report.after.players \ report.before.players)
           = Cardinality(TrueCalls)
    /\ report.count = Cardinality(TrueCalls)
    /\ report.total = Len(report.file.lines)
    /\ report.import_type # "Players" =>
           /\ report.calls = <<>>
           /\ report.count = 0
           /\ report.after = report.before

\* The statement of C30 as written: an import of type Players calls add_player
\* once for every row of the file.
C30_OneCallPerRow ==
    Imported =>
        /\ ImportFrame
        /\ report.import_type = "Players" =>
               /\ Len(report.calls) = report.total
               /\ \A k \in 1..Len(report.calls) : report.calls[k].row = k

\* a cell of a numeric column that int() and float() accept
NumberText(text) == text = "" \/ text = "100"

Convertible(line) ==
    \A c \in DOMAIN line : c \in IntFields \cup FloatFields => NumberText(line[c])

ConvertibleRows ==
    {k \in 1..Len(report.file.lines) : Convertible(report.file.lines[k])}

\* C30: 'Import Data' inserts rows only for import type Players; it calls
\* add_player once, in file order, for every row whose numeric cells are
\* numbers or empty, and makes no call for a row with any other text in a
\* numeric cell, which it reports with a warning; it counts the calls that
\* return true, and neither a call that returns false nor a row with a
\* warning stops the rows after it; for types Teams and Venues it inserts
\* nothing and reports 0 of N.
C30_ImportCountsSuccessfulRows ==
    Imported =>
        /\ ImportFrame
        /\ report.import_type = "Players" =>
               /\ {report.calls[k].row : k \in 1..Len(report.calls)} = ConvertibleRows
               /\ {report.warnings[k] : k \in 1..Len(report.warnings)}
                      = (1..report.total) \ ConvertibleRows
               /\ Len(report.calls) = Cardinality(ConvertibleRows)
               /\ \A j, k \in 1..Len(report.calls) :
                      j < k => report.calls[j].row < report.calls[k].row

\* two rows of type Players: the first is rejected by the store, the second
\* is inserted and counted
C30_Witness ==
    /\ Imported
    /\ report.import_type = "Players"
    /\ report.total = 2
    /\ Len(report.calls) = 2
    /\ ~report.calls[1].ret /\ report.calls[2].ret
    /\ report.count = 1
    /\ Cardinality(report.after.players) = Cardinality(report.before.players) + 1

\* a row whose total_runs cell reads "abc" is skipped with a warning and the
\* row after it is inserted
C30_SkippedRowWitness ==
    /\ Imported
    /\ report.import_type = "Players"
    /\ report.total = 2
    /\ report.warnings = <<1>>
    /\ Len(report.calls) = 1 /\ report.calls[1].row = 2 /\ report.calls[1].ret

====
